---- MODULE Spec2Model ----
(***************************************************************************)
(* A model of the GEP subscription client (DataSubscriber.cpp): the        *)
(* DataSubscriber object, its SubscriberConnector, and the threads that    *)
(* act on them.                                                            *)
(*                                                                         *)
(*   Spec       the connection lifecycle: the application thread calling   *)
(*              SubscriberConnector::Connect and Disconnect(); the         *)
(*              command-channel reader; the callback thread; the threads   *)
(*              started for ConnectionTerminatedDispatcher, which run      *)
(*              Disconnect(true) and AutoReconnect.  The publisher sends   *)
(*              acknowledgements, closes connections, reads fail.          *)
(*   SpecSub    the subscription on one connection: Connect, Subscribe,    *)
(*              Unsubscribe; every response kind on the command channel;   *)
(*              the UDP data reader; the callback thread decoding and      *)
(*              delivering.                                                *)
(*   SpecFrame  the command-channel reader at byte level: a stream of      *)
(*              frames cut into arbitrary chunks, ReadPayloadHeader and    *)
(*              ReadPacket reassembling it.                                *)
(*   SpecTssc   compressed data packets: versions, sequence numbers,       *)
(*              unknown signal indexes, updates of the signal index cache, *)
(*              the counters.                                              *)
(*   SpecSeq    the sequence number of compressed packets from any start,  *)
(*              the roll-over included.                                    *)
(*   SpecCache  updates of the signal index cache that are well formed,    *)
(*              cut short, or not decompressible.                          *)
(*   SpecModes  the operational modes sent to the publisher: Connect,      *)
(*              Subscribe over TCP or UDP, the compression setters.        *)
(*   SpecResp   ProcessServerResponse and its handlers on the bytes of a   *)
(*              frame body.                                                *)
(*   SpecRetry, SpecRetryFair                                              *)
(*              the connector's retry loop and Cancel.                     *)
(*   SpecAuto   a connection that terminates and is re-established by      *)
(*              AutoReconnect.                                             *)
(*   SpecSet    the same, the application changing the autoReconnect       *)
(*              setting while connected.                                   *)
(*   SpecSend   SendServerCommand: frames laid out in m_writeBuffer and    *)
(*              written asynchronously to the command channel.             *)
(*                                                                         *)
(* Except in SpecFrame and SpecResp frames are abstract (one value per     *)
(* response kind).                                                         *)
(*                                                                         *)
(* One step of a thread is one statement group of the source between two   *)
(* points where another thread can observe or change shared state.         *)
(***************************************************************************)
EXTENDS Integers, Sequences, FiniteSets, TLC

\* ------------------------------------------------------------------ bounds
\* Frames the publisher sends in one run (both channels together).
MaxFrames == 2
\* Connections the publisher accepts in one run.
MaxConn == 2
\* API calls the application thread makes in one run.
MaxCalls == 3
\* Threads started for ConnectionTerminatedDispatcher in one run.
MaxTerm == 1
\* Largest finite value of SubscriberConnector::m_maxRetries tried.
MaxRetries == 2
\* Frames and API calls in one run of SpecSub.
SubFrames == 3
SubCalls == 3
\* Bytes of payload in a frame of the command channel.
PayloadLength == 10
\* SpecAuto: frames the publisher sends, calls the application makes.
AutoFrames == 1
AutoCalls == 1
\* SpecRetry: calls of SubscriberConnector::Connect the application makes.
RetryCalls == 2
\* SpecTssc: frames the publisher sends, calls the application makes.
TsscFrames == 2
TsscCalls == 2
\* SpecCache: frames the publisher sends, calls the application makes.
CacheFrames == 2
CacheCalls == 1
\* SpecModes: frames the publisher sends, calls the application makes
\* besides the compression setters.
ModeFrames == 1
ModeCalls == 3
\* SpecSeq: frames the publisher sends, calls the application makes.
SeqFrames == 3
SeqCalls == 1
\* SpecResp: frames per run, application calls per run
RespFrames == 2
RespCalls == 1
\* SpecSend: the commands sent per run, and the initial size of m_writeBuffer
\* (Common::MaxPacketSize, scaled down)
MaxSends == 3
WriteBufferSize == 13
\* the bytes of m_readBuffer that the response handlers can reach: the packet
\* header and the twenty bytes of a base-time update
ReadBufferSpan == 26
\* SpecFrame: frames in the stream, body lengths and fill bytes, and the
\* initial size of m_readBuffer (Common::MaxPacketSize, scaled down).
MaxStream == 2
MaxPacketSize == 9
BodyLens == {0, 1, 3, MaxPacketSize + 1}
BodyBytes == {7, 255}

\* ------------------------------------------------------------- vocabulary
User == 0
Term == 1..MaxTerm
Callers == {User} \cup Term

\* Response kinds the publisher sends (ProcessServerResponse's switch).
\*   SubAck   = Succeeded / Subscribe      UnsubAck = Succeeded / Unsubscribe
\*   Data     = DataPacket                 Cache    = UpdateSignalIndexCache
FrameKinds == {"SubAck", "UnsubAck", "Data", "Cache"}

\* Signal index cache payloads: sequences of <<signalIndex, id>>.
CachePayloads == { << <<1, 10>>, <<2, 20>> >>, << <<1, 11>> >> }

\* What a read past the end of a truncated cache payload can yield as a
\* reference: whatever bytes follow the payload in memory.
StrayReferences == { << 1, 99 >>, << 4, 40 >> }

\* A data packet as NewMeasurementsDispatcher reads it: the Compressed flag,
\* the measurement count and, in a compressed packet, the TSSC version byte,
\* the sequence number and the compressed tuples.  ids are the signal
\* indexes of the tuples; raises is the number of the TryGetMeasurement call
\* that raises (0: none does).
Packet(compressed, version, sequenceNumber, ids, raises) ==
    [compressed |-> compressed, count |-> Len(ids), version |-> version,
     sequenceNumber |-> sequenceNumber, ids |-> ids, raises |-> raises]

\* A compact packet without measurements.
CompactPacket == Packet(FALSE, 0, 0, << >>, 0)

\* The version byte ParseTSSCMeasurements accepts.
TsscVersion == 85

\* Sequence numbers the publisher puts into the packets.
MaxSeqNo == 2
SeqNos == 0..MaxSeqNo

\* Signal index 3 is in no cache payload.
IdLists == { << 3, 1 >> }

\* Values of m_tsscSequenceNumber at which SpecSeq begins: a new subscriber,
\* and one that has decoded packets up to the end of the 16-bit range.
SeqStarts == {0, 1, 65534, 65535}

\* The TryGetMeasurement call that raises: none, the one for the second
\* tuple, the one after the last tuple.
RaiseAt == {0, 2, 3}

TsscPackets ==
    { Packet(TRUE, TsscVersion - 1, 0, << 1 >>, 0) }
    \cup { Packet(TRUE, TsscVersion, n, ids, r) :
                n \in SeqNos, ids \in IdLists, r \in RaiseAt }

\* The threads that dispatch records: the two readers, and the callback
\* thread itself while it decodes.
Channels == {"tcp", "udp", "cb"}

NoItem == [fn |-> "none", ch |-> "none", seq |-> 0, conn |-> 0, snap |-> {},
           data |-> << >>]
NoFrame == [kind |-> "none", payload |-> << >>]

VARIABLES
    \* DataSubscriber fields
    m_connected, m_subscribed, m_disconnecting,
    m_signalIndexCache,
    m_callbackQueue,          \* ThreadSafeQueue<CallbackDispatcher>: the records
    queueReleased,            \* ThreadSafeQueue: Release() called, Reset() not yet
    m_autoReconnectCallback,  \* registered (non-null)
    m_connectionTerminatedCallback,
    udpDataChannel,           \* m_subscriptionInfo.UdpDataChannel
    \* SubscriberConnector fields
    m_cancel, m_autoReconnect, m_maxRetries,
    m_errorMessageCallback,   \* registered with the connector (non-null)
    \* sockets and the publisher
    sockOpen,                 \* m_commandChannelSocket is open
    peerOpen,                 \* the publisher's end of the connection is open
    udpOpen,                  \* m_dataChannelSocket is open
    framesLeft, connNo, callsLeft,
    \* threads
    callbackThread,           \* m_callbackThread: [pc, item]
    commandThread,            \* m_commandChannelResponseThread: [pc, frame, k, conn, end]
    dataThread,               \* m_dataChannelResponseThread: [pc]
    caller,                   \* application thread and termination threads:
                              \* [pc, i, cbs (callbacks the call has made),
                              \*  quiet (the call was made AtRest)]
    \* history (what the claims speak about, not read by the program)
    liveConn,                 \* number of the connection that is up, 0 if none
    ackConn,                  \* connection whose Subscribe was last acknowledged
    streamCache,              \* cache contents after the Cache frames consumed
    cacheBefore,              \* m_signalIndexCache when the handling of the
                              \* last UpdateSignalIndexCache response began
    nDispatched, nDelivered,  \* per channel: records enqueued / invoked
    purged,                   \* history: the records (connection, channel,
                              \* number) in the queue when Clear() was called
    phase,                    \* 1 while the application's Disconnect() runs,
                              \* begun with no termination thread alive;
                              \* 2 once it has returned; 3 in the Connect
                              \* that follows; 4 once that Connect has set
                              \* m_connected; 0 otherwise
    \* byte-level reader (SpecFrame)
    stream, m_readBuffer, readWant, readGot, readPc, handed, frames,
    \* TSSC decoding
    m_tsscSequenceNumber,     \* uint16_t: the sequence number expected next
    m_tsscResetRequested,
    m_tsscMeasurementParser,  \* tssc::TsscMeasurementParser: the tuples decoded
                              \* since the last Reset() (what its predictors
                              \* have learnt)
    parsed,                   \* history: one entry per compressed packet that
                              \* ParseTSSCMeasurements has returned from
    requestedAtTest,          \* history: m_tsscResetRequested as the sequence
                              \* test of the packet being decoded found it
    \* statistics
    m_totalCommandChannelBytesReceived, m_totalMeasurementsReceived,
    \* operational modes
    m_compressPayloadData, m_compressMetadata, m_compressSignalIndexCache,
    sentModes,                \* history: the operational modes of the last
                              \* DefineOperationalModes command sent, {} if none
    \* base times
    m_timeIndex,              \* int32_t
    m_baseTimeOffsets,        \* int64_t[2]
    \* sending commands
    m_writeBuffer,            \* vector<uint8_t>
    writes,                   \* the asynchronous writes on the command channel
                              \* that have not completed, oldest first
    wire                      \* history: the frames the publisher has received

lifeVars == << m_connected, m_subscribed, m_disconnecting, m_signalIndexCache,
               m_callbackQueue, queueReleased, m_autoReconnectCallback,
               m_connectionTerminatedCallback, udpDataChannel,
               m_cancel, m_autoReconnect, m_maxRetries, m_errorMessageCallback,
               sockOpen, peerOpen, udpOpen, framesLeft, connNo, callsLeft,
               callbackThread, commandThread, dataThread, caller,
               liveConn, ackConn, streamCache, cacheBefore, nDispatched, nDelivered, purged, phase >>

frameVars == << stream, m_readBuffer, readWant, readGot, readPc, handed, frames >>

tsscVars == << m_tsscSequenceNumber, m_tsscResetRequested,
              m_tsscMeasurementParser, parsed, requestedAtTest >>

statVars == << m_totalCommandChannelBytesReceived, m_totalMeasurementsReceived >>

modeVars == << m_compressPayloadData, m_compressMetadata,
              m_compressSignalIndexCache, sentModes >>

timeVars == << m_timeIndex, m_baseTimeOffsets >>

sendVars == << m_writeBuffer, writes, wire >>

vars == << lifeVars, frameVars, tsscVars, statVars, modeVars, timeVars, sendVars >>

cfgVars == << m_autoReconnect, m_maxRetries, m_connectionTerminatedCallback,
             m_errorMessageCallback >>
flagVars == << m_connected, m_subscribed, m_disconnecting >>
queueVars == << m_callbackQueue, queueReleased, nDispatched >>
netVars == << sockOpen, peerOpen, udpOpen >>
threadVars == << callbackThread, commandThread, dataThread >>
budgetVars == << framesLeft, connNo, callsLeft >>
cacheVars == << m_signalIndexCache, streamCache, cacheBefore >>

\* The process is running: no exception has left a thread function.
Running == callbackThread.pc # "crashed" /\ commandThread.pc # "crashed"

\* No thread started for ConnectionTerminatedDispatcher is alive.
AllTermIdle == \A t \in Term : caller[t].pc = "idle"

\* The subscriber is disconnected and nothing of a connection is left: the
\* state of a new subscriber, or after a teardown that has finished.
AtRest ==
    /\ ~m_connected
    /\ ~m_subscribed
    /\ ~m_disconnecting
    /\ ~sockOpen
    /\ ~udpOpen
    /\ ~queueReleased
    /\ m_callbackQueue = << >>
    /\ callbackThread.pc = "none"
    /\ commandThread.pc = "none"
    /\ dataThread.pc = "none"
    /\ AllTermIdle

\* ---------------------------------------------------------- ThreadSafeQueue
\* Enqueue: append at the tail.
Enqueue(q, item) == Append(q, item)

\* WaitForData returns: a record is queued or Release() was called.
DataReady == Len(m_callbackQueue) > 0 \/ queueReleased

\* -------------------------------------------------------- DataSubscriber
\* Dispatch(function, data, offset, length): copy the data into a record and
\* enqueue it for the callback thread.  ch is the channel whose thread
\* dispatches; snap is what the record's frame expects of the cache.
\* A faulty Dispatch that puts the record at the head of the queue.
Dispatch_Front(fn, ch, snap, data) ==
    /\ m_callbackQueue' = << [fn |-> fn, ch |-> ch, seq |-> nDispatched[ch] + 1,
                              conn |-> liveConn, snap |-> snap, data |-> data] >>
                           \o m_callbackQueue
    /\ nDispatched' = [nDispatched EXCEPT ![ch] = @ + 1]
    /\ UNCHANGED queueReleased

Dispatch(fn, ch, snap, data) ==
    /\ m_callbackQueue' = Enqueue(m_callbackQueue,
            [fn |-> fn, ch |-> ch, seq |-> nDispatched[ch] + 1,
             conn |-> liveConn, snap |-> snap, data |-> data])
    /\ nDispatched' = [nDispatched EXCEPT ![ch] = @ + 1]
    /\ UNCHANGED queueReleased

\* Common::PayloadHeaderSize
PayloadHeaderSize == 8

\* What the socket can report for the pending asynchronous read.
\*   aborted  the socket was closed locally (operation_aborted)
\*   eof      the publisher closed or reset the connection
\*   error    any other I/O error
\*   ok       the requested bytes arrived
ReadOutcomes ==
    IF ~sockOpen THEN {"aborted"}
    ELSE IF ~peerOpen THEN {"eof"}
    ELSE {"error"} \cup (IF framesLeft > 0 THEN {"ok"} ELSE {})

EofClass(o) == o = "eof"

ReaderEnds(why, o) ==
    commandThread' = [commandThread EXCEPT !.pc = "done", !.end = why,
                                           !.eof = EofClass(o)]

\* The error branches shared by ReadPayloadHeader and ReadPacket: return while
\* disconnecting; on EOF / reset / abort by the peer start a thread running
\* ConnectionTerminatedDispatcher; on any other error dispatch an error message.
\* In each case no further read is issued, so io_context::run returns and the
\* reader thread ends.
ReadFailed(o) ==
    \/ /\ m_disconnecting
       /\ ReaderEnds("disconnecting", o)
       /\ UNCHANGED << caller, queueVars >>
    \/ /\ ~m_disconnecting
       /\ EofClass(o)
       /\ \E t \in Term :
            /\ caller[t].pc = "idle"
            /\ \A u \in Term : u < t => caller[u].pc # "idle"
            /\ caller' = [caller EXCEPT ![t] = [pc |-> "d_begin", i |-> 0, cbs |-> << >>, quiet |-> FALSE,
                                                attempts |-> 0, errs |-> 0]]
       /\ ReaderEnds("eof", o)
       /\ UNCHANGED queueVars
    \/ /\ ~m_disconnecting
       /\ o \in {"error", "aborted"}
       /\ Dispatch("error", "tcp", {}, "Error reading data from command channel")
       /\ ReaderEnds("error", o)
       /\ UNCHANGED caller

\* ReadPayloadHeader: completion of the 8-byte header read.
ReadPayloadHeader ==
    /\ Running
    /\ commandThread.pc = "hdr"
    /\ \E o \in ReadOutcomes :
         \/ /\ (m_disconnecting \/ o # "ok")
            /\ ReadFailed(o)
            /\ UNCHANGED m_totalCommandChannelBytesReceived
         \/ /\ ~m_disconnecting
            /\ o = "ok"
            /\ m_totalCommandChannelBytesReceived' =
                    m_totalCommandChannelBytesReceived + PayloadHeaderSize
            /\ commandThread' = [commandThread EXCEPT !.pc = "body"]
            /\ UNCHANGED << caller, queueVars >>
    /\ UNCHANGED << cfgVars, flagVars, netVars, budgetVars, cacheVars,
                    callbackThread, dataThread, m_autoReconnectCallback,
                    udpDataChannel, m_cancel, liveConn, ackConn, nDelivered, purged,
                    phase, frameVars, tsscVars, m_totalMeasurementsReceived,
                    modeVars, timeVars, sendVars >>

\* ------------------------------------------------------ response bodies
\* ServerResponse and ServerCommand (Constants.h): the codes that occur below.
\* The switch statements depend on the codes being distinct bytes, not on
\* their values.
ServerResponse ==
    [Succeeded |-> 128, Failed |-> 129, UpdateBaseTimes |-> 132, NoOP |-> 255]

ServerCommand ==
    [Authenticate |-> 0, MetadataRefresh |-> 1, Subscribe |-> 8, Unsubscribe |-> 3,
     RotateCipherKeys |-> 4, DefineOperationalModes |-> 6]

\* An int64_t as four 16-bit digits, most significant first; Int64(n) for
\* 0 <= n < 65536.
Int64(n) == << 0, 0, 0, n >>

\* The bytes of 0 <= n < 65536 in a big-endian field of the width (the
\* publisher's side).
BigEndianBytes(n, width) ==
    [j \in 1..width |-> IF j = width THEN n % 256
                        ELSE IF j = width - 1 THEN n \div 256
                        ELSE 0]

\* The bytes read as base 256 digits, most significant first.
RECURSIVE Digits(_)
Digits(b) ==
    IF Len(b) = 0 THEN 0
    ELSE 256 * Digits(SubSeq(b, 1, Len(b) - 1)) + b[Len(b)]

\* EndianConverter::ConvertBigEndian on the four bytes of an int32_t: two's
\* complement, so a first byte of 128 or more makes the value negative.
ConvertBigEndian(b) ==
    IF b[1] < 128 THEN Digits(b)
    ELSE Digits([j \in 1..Len(b) |-> b[j] - 255]) - 1

\* EndianConverter::ConvertBigEndian on the eight bytes of an int64_t.
ConvertBigEndian_Int64(b) ==
    [j \in 1..4 |-> 256 * b[2 * j - 1] + b[2 * j]]

\* The payload of an UpdateBaseTimes response.
BaseTimes(activeIndex, offset0, offset1) ==
    BigEndianBytes(activeIndex, 4) \o BigEndianBytes(offset0, 8)
        \o BigEndianBytes(offset1, 8)

BaseTimeUpdates ==
    { BaseTimes(i, o[1], o[2]) : i \in {0, 1, 2}, o \in { << 1000, 2000 >>, << 0, 5 >> } }

\* The messages that come with a Succeeded or Failed response: "" and "OK".
Texts == { << >>, << 79, 75 >> }

\* A frame body for the codes and the payload: the two codes and the payload,
\* or the six bytes of the packet header that ProcessServerResponse skips
\* (the codes and the length of the payload) and the payload.
Framed(responseCode, commandCode, payload) ==
    { << responseCode, commandCode >> \o payload,
      << responseCode, commandCode >> \o BigEndianBytes(Len(payload), 4) \o payload }

\* The bodies the publisher sends in SpecResp.
RawBodies ==
    UNION { Framed(ServerResponse.Succeeded, c, t) :
               c \in { ServerCommand[n] : n \in DOMAIN ServerCommand }, t \in Texts }
    \cup UNION { Framed(ServerResponse.Failed, ServerCommand.Subscribe, t) : t \in Texts }
    \cup UNION { Framed(ServerResponse.UpdateBaseTimes, 0, u) : u \in BaseTimeUpdates }
    \cup Framed(ServerResponse.NoOP, 0, << >>)
    \cup Framed(7, 0, << >>)

\* What the bytes of m_readBuffer behind a body hold: zeroes, or what an
\* earlier body left there.
StaleBytes == {0, 255}

\* m_readBuffer once the body has been read into it.
ReadBuffer(body, fill) ==
    body \o [j \in 1..(ReadBufferSpan - Len(body)) |-> fill]

\* Compressed packets of a publisher in step with the subscriber: the
\* sequence number the subscriber expects, or 0 to start again.
InSequencePackets ==
    { Packet(TRUE, TsscVersion, n, << 1 >>, 0) : n \in {0, m_tsscSequenceNumber} }

\* The payloads the publisher sends in a frame of the kind.
Payloads(kind) ==
    IF kind \in {"Cache", "CacheCut", "CacheCorrupt"} THEN CachePayloads
    ELSE IF kind = "Tssc" THEN TsscPackets
    ELSE IF kind = "Seq" THEN InSequencePackets
    ELSE IF kind = "Raw" THEN RawBodies
    ELSE { << >> }

\* The header ProcessServerResponse skips at the start of a frame body.
PacketHeaderSize == 6

\* The length of the body of a frame: the packet header and the payload,
\* which the publisher pads to the same length in every frame.
BytesTransferred(kind, payload) == PacketHeaderSize + PayloadLength

\* ReadPacket, first half: completion of the body read and the checks made
\* before the response is processed.
ReadPacket(kinds) ==
    /\ Running
    /\ commandThread.pc = "body"
    /\ \E o \in ReadOutcomes :
         \/ /\ (m_disconnecting \/ o # "ok")
            /\ ReadFailed(o)
            /\ UNCHANGED << framesLeft, m_totalCommandChannelBytesReceived >>
         \/ /\ ~m_disconnecting
            /\ o = "ok"
            /\ \E k \in kinds :
                 \E p \in Payloads(k) :
                    /\ commandThread' = [commandThread EXCEPT
                            !.pc = "handle", !.frame = [kind |-> k, payload |-> p]]
                    /\ m_totalCommandChannelBytesReceived' =
                            m_totalCommandChannelBytesReceived + BytesTransferred(k, p)
            /\ framesLeft' = framesLeft - 1
            /\ UNCHANGED << caller, queueVars >>
    /\ UNCHANGED << cfgVars, flagVars, netVars, connNo, callsLeft, cacheVars,
                    callbackThread, dataThread, m_autoReconnectCallback,
                    udpDataChannel, m_cancel, liveConn, ackConn, nDelivered, purged,
                    phase, frameVars, tsscVars, m_totalMeasurementsReceived,
                    modeVars, timeVars, sendVars >>

NextHeaderRead == [commandThread EXCEPT !.pc = "hdr", !.frame = NoFrame, !.k = 0]

\* HandleSucceeded for Subscribe / Unsubscribe: toggle m_subscribed, then
\* deliver the message as a status message.
HandleSucceeded(kind) ==
    /\ m_subscribed' = (kind = "SubAck")
    /\ ackConn' = IF kind = "SubAck" THEN commandThread.conn ELSE 0
    /\ Dispatch("status", "tcp", {}, "Succeeded")
    /\ commandThread' = NextHeaderRead
    /\ UNCHANGED cacheVars

\* HandleDataPacket: hand the packet to the callback thread, which decodes it.
HandleDataPacket ==
    /\ Dispatch("data", "tcp", streamCache,
                IF commandThread.frame.kind \in {"Tssc", "Seq"}
                THEN commandThread.frame.payload
                ELSE CompactPacket)
    /\ commandThread' = NextHeaderRead
    /\ UNCHANGED << m_subscribed, ackConn, cacheVars >>

\* HandleUpdateSignalIndexCache, up to and including m_signalIndexCache.Clear().
\* A faulty handler that does not clear the cache.
HandleUpdateSignalIndexCache_NoClear(payload) ==
    /\ UNCHANGED m_signalIndexCache
    /\ cacheBefore' = m_signalIndexCache
    /\ streamCache' = { payload[j] : j \in 1..Len(payload) }
    /\ commandThread' = IF Len(payload) = 0 THEN NextHeaderRead
                        ELSE [commandThread EXCEPT !.pc = "load", !.k = 1]
    /\ UNCHANGED << m_subscribed, ackConn, queueVars >>

HandleUpdateSignalIndexCache(payload) ==
    /\ m_signalIndexCache' = {}
    /\ cacheBefore' = m_signalIndexCache
    /\ streamCache' = { payload[j] : j \in 1..Len(payload) }
    /\ commandThread' = IF Len(payload) = 0 THEN NextHeaderRead
                        ELSE [commandThread EXCEPT !.pc = "load", !.k = 1]
    /\ UNCHANGED << m_subscribed, ackConn, queueVars >>

\* ReadPacket, second half: ProcessServerResponse on the body, then the next
\* header read is issued.  One action per case of the switch.
ProcessUnchanged ==
    UNCHANGED << cfgVars, m_connected, m_disconnecting, netVars, budgetVars,
                 callbackThread, dataThread, caller, m_autoReconnectCallback,
                 udpDataChannel, m_cancel, liveConn, nDelivered, purged, phase,
                 frameVars, tsscVars, statVars, modeVars, timeVars, sendVars >>

ProcessSucceeded ==
    /\ Running
    /\ commandThread.pc = "handle"
    /\ commandThread.frame.kind \in {"SubAck", "UnsubAck"}
    /\ HandleSucceeded(commandThread.frame.kind)
    /\ ProcessUnchanged

ProcessDataPacket ==
    /\ Running
    /\ commandThread.pc = "handle"
    /\ commandThread.frame.kind \in {"Data", "Tssc", "Seq"}
    /\ HandleDataPacket
    /\ ProcessUnchanged

ProcessUpdateSignalIndexCache ==
    /\ Running
    /\ commandThread.pc = "handle"
    /\ commandThread.frame.kind \in {"Cache", "CacheCut"}
    /\ HandleUpdateSignalIndexCache(commandThread.frame.payload)
    /\ ProcessUnchanged

\* HandleUpdateSignalIndexCache on a payload that does not decompress:
\* CopyStream raises, the exception leaves ReadPacket, io_context::run and the
\* thread function, and the process ends.
ProcessUpdateSignalIndexCache_Raise ==
    /\ Running
    /\ commandThread.pc = "handle"
    /\ commandThread.frame.kind = "CacheCorrupt"
    /\ commandThread' = [commandThread EXCEPT !.pc = "crashed"]
    /\ cacheBefore' = m_signalIndexCache
    /\ UNCHANGED << m_signalIndexCache, streamCache, m_subscribed, ackConn, queueVars >>
    /\ ProcessUnchanged

\* ProcessServerResponse, default case: an error message is dispatched and
\* the next header read is issued.
ProcessUnexpected ==
    /\ Running
    /\ commandThread.pc = "handle"
    /\ commandThread.frame.kind = "Unknown"
    /\ Dispatch("error", "tcp", {}, "Encountered unexpected server response code")
    /\ commandThread' = NextHeaderRead
    /\ UNCHANGED << m_subscribed, ackConn, cacheVars >>
    /\ ProcessUnchanged

\* ------------------------------------------- ProcessServerResponse on bytes
\* The length bytes at data: a length that has wrapped around (below zero
\* here, near 2^32 in the uint32_t) runs past the end of the buffer.
Overruns(data, length) == length < 0 \/ length > Len(data)

\* Dispatch of the length bytes at data to the dispatcher fn.  A read past
\* the end of the buffer has no defined outcome: the thread faults, or the
\* record takes what memory holds behind the buffer.
DispatchBytes(fn, text, commandCode, data, length) ==
    IF ~Overruns(data, length)
    THEN /\ Dispatch(fn, "tcp", {},
                     [text |-> text, code |-> commandCode,
                      message |-> SubSeq(data, 1, length), past |-> FALSE])
         /\ commandThread' = NextHeaderRead
    ELSE \/ /\ commandThread' = [commandThread EXCEPT !.pc = "crashed"]
            /\ UNCHANGED queueVars
         \/ /\ Dispatch(fn, "tcp", {},
                        [text |-> text, code |-> commandCode,
                         message |-> data, past |-> TRUE])
            /\ commandThread' = NextHeaderRead

\* HandleMetadataRefresh
HandleMetadataRefresh(data, length) ==
    DispatchBytes("metadata", "", ServerCommand.MetadataRefresh, data, length)

\* HandleSucceeded on the command code and the bytes it is given.
HandleSucceeded_Code(commandCode, data, length) ==
    CASE commandCode = ServerCommand.MetadataRefresh ->
            /\ HandleMetadataRefresh(data, length)
            /\ UNCHANGED << m_subscribed, ackConn >>
      [] commandCode \in {ServerCommand.Subscribe, ServerCommand.Unsubscribe} ->
            /\ m_subscribed' = (commandCode = ServerCommand.Subscribe)
            /\ ackConn' = IF commandCode = ServerCommand.Subscribe
                          THEN commandThread.conn ELSE 0
            /\ DispatchBytes("status",
                             "Received success code in response to server command",
                             commandCode, data, length)
      [] commandCode \in {ServerCommand.Authenticate, ServerCommand.RotateCipherKeys} ->
            /\ DispatchBytes("status",
                             "Received success code in response to server command",
                             commandCode, data, length)
            /\ UNCHANGED << m_subscribed, ackConn >>
      [] OTHER ->
            /\ Dispatch("error", "tcp", {},
                        [text |-> "Received success code in response to unknown server command",
                         code |-> commandCode, message |-> << >>, past |-> FALSE])
            /\ commandThread' = NextHeaderRead
            /\ UNCHANGED << m_subscribed, ackConn >>

\* HandleFailed
HandleFailed(commandCode, data, length) ==
    DispatchBytes("error", "Received failure code from server command",
                  commandCode, data, length)

\* HandleUpdateBaseTimes: the index and the two offsets are taken from the
\* first twenty bytes at data, whatever the length.
HandleUpdateBaseTimes(data) ==
    /\ m_timeIndex' = ConvertBigEndian(SubSeq(data, 1, 4))
    /\ m_baseTimeOffsets' = << ConvertBigEndian_Int64(SubSeq(data, 5, 12)),
                               ConvertBigEndian_Int64(SubSeq(data, 13, 20)) >>

\* ReadPacket, second half, on the bytes of the body: ProcessServerResponse,
\* then the next header read is issued.
ProcessServerResponse ==
    /\ Running
    /\ commandThread.pc = "handle"
    /\ commandThread.frame.kind = "Raw"
    /\ \E fill \in StaleBytes :
         LET length == Len(commandThread.frame.payload)
             buffer == ReadBuffer(commandThread.frame.payload, fill)
             packetBodyStart == SubSeq(buffer, PacketHeaderSize + 1, Len(buffer))
             packetBodyLength == length - PacketHeaderSize
             responseCode == buffer[1]
             commandCode == buffer[2]
         IN  CASE responseCode = ServerResponse.Succeeded ->
                    /\ HandleSucceeded_Code(commandCode, packetBodyStart, packetBodyLength)
                    /\ UNCHANGED timeVars
               [] responseCode = ServerResponse.Failed ->
                    /\ HandleFailed(commandCode, packetBodyStart, packetBodyLength)
                    /\ UNCHANGED << m_subscribed, ackConn, timeVars, sendVars >>
               [] responseCode = ServerResponse.UpdateBaseTimes ->
                    /\ HandleUpdateBaseTimes(packetBodyStart)
                    /\ commandThread' = NextHeaderRead
                    /\ UNCHANGED << m_subscribed, ackConn, queueVars >>
               [] responseCode = ServerResponse.NoOP ->
                    /\ commandThread' = NextHeaderRead
                    /\ UNCHANGED << m_subscribed, ackConn, queueVars, timeVars, sendVars >>
               [] OTHER ->
                    /\ Dispatch("error", "tcp", {},
                                [text |-> "Encountered unexpected server response code",
                                 code |-> responseCode, message |-> << >>,
                                 past |-> FALSE])
                    /\ commandThread' = NextHeaderRead
                    /\ UNCHANGED << m_subscribed, ackConn, timeVars, sendVars >>
    /\ UNCHANGED << cfgVars, m_connected, m_disconnecting, netVars, budgetVars,
                    callbackThread, dataThread, caller, m_autoReconnectCallback,
                    udpDataChannel, m_cancel, liveConn, nDelivered, purged, phase,
                    cacheVars, frameVars, tsscVars, statVars, modeVars, sendVars >>

\* SignalIndexCache::AddMeasurementKey: the entry for a signal index replaces
\* any earlier one.
AddMeasurementKey(cache, e) == { x \in cache : x[1] # e[1] } \cup {e}

\* The reference count at the head of the payload: the number of references
\* that follow, or, in a payload cut short, one more than that.
ReferenceCount(frame) ==
    Len(frame.payload) + (IF frame.kind = "CacheCut" THEN 1 ELSE 0)

\* HandleUpdateSignalIndexCache, one iteration of the loop over the references.
LoadSignalIndexCache ==
    /\ Running
    /\ commandThread.pc = "load"
    /\ commandThread.k <= Len(commandThread.frame.payload)
    /\ LET p == commandThread.frame.payload
           k == commandThread.k IN
         /\ m_signalIndexCache' = AddMeasurementKey(m_signalIndexCache, p[k])
         /\ commandThread' = IF k = ReferenceCount(commandThread.frame)
                             THEN NextHeaderRead
                             ELSE [commandThread EXCEPT !.k = k + 1]
    /\ UNCHANGED << cfgVars, flagVars, netVars, budgetVars, queueVars,
                    streamCache, cacheBefore, callbackThread, dataThread, caller,
                    m_autoReconnectCallback, udpDataChannel, m_cancel, liveConn,
                    ackConn, nDelivered, purged, phase, frameVars, tsscVars, statVars, modeVars, timeVars, sendVars >>

\* HandleUpdateSignalIndexCache, an iteration of the loop that reads a
\* reference past the end of the payload (nothing compares the reference
\* count with the length): the read faults and the process ends, or it
\* yields the bytes that happen to follow and they are added as a key.
LoadSignalIndexCache_PastEnd ==
    /\ Running
    /\ commandThread.pc = "load"
    /\ commandThread.k > Len(commandThread.frame.payload)
    /\ \/ /\ commandThread' = [commandThread EXCEPT !.pc = "crashed"]
          /\ UNCHANGED m_signalIndexCache
       \/ /\ \E e \in StrayReferences :
                m_signalIndexCache' = AddMeasurementKey(m_signalIndexCache, e)
          /\ commandThread' = NextHeaderRead
    /\ UNCHANGED << cfgVars, flagVars, netVars, budgetVars, queueVars,
                    streamCache, cacheBefore, callbackThread, dataThread, caller,
                    m_autoReconnectCallback, udpDataChannel, m_cancel, liveConn,
                    ackConn, nDelivered, purged, phase, frameVars, tsscVars, statVars, modeVars, timeVars, sendVars >>

\* RunDataChannelResponseThread: one iteration of the receive loop.  The
\* receive fails (the socket was closed, or any network error) or yields a
\* data packet.
RunDataChannelResponseThread ==
    /\ Running
    /\ dataThread.pc = "recv"
    /\ \/ /\ m_disconnecting
          /\ dataThread' = [dataThread EXCEPT !.pc = "done"]
          /\ UNCHANGED << queueVars, framesLeft >>
       \/ /\ ~m_disconnecting
          /\ Dispatch("error", "udp", {}, "Error reading data from command channel")
          /\ dataThread' = [dataThread EXCEPT !.pc = "done"]
          /\ UNCHANGED framesLeft
       \/ /\ ~m_disconnecting
          /\ udpOpen
          /\ framesLeft > 0
          /\ Dispatch("data", "udp", streamCache, CompactPacket)
          /\ framesLeft' = framesLeft - 1
          /\ UNCHANGED dataThread
    /\ UNCHANGED << cfgVars, flagVars, netVars, connNo, callsLeft, cacheVars,
                    callbackThread, commandThread, caller,
                    m_autoReconnectCallback, udpDataChannel, m_cancel, liveConn,
                    ackConn, nDelivered, purged, phase, frameVars, tsscVars, statVars, modeVars, timeVars, sendVars >>

\* ------------------------------------------------------- callback thread
\* RunCallbackThread: WaitForData returns.
CallbackWake ==
    /\ Running
    /\ callbackThread.pc = "wait"
    /\ DataReady
    /\ callbackThread' = [callbackThread EXCEPT !.pc = "check"]
    /\ UNCHANGED << cfgVars, flagVars, netVars, budgetVars, cacheVars, queueVars,
                    commandThread, dataThread, caller, m_autoReconnectCallback,
                    udpDataChannel, m_cancel, liveConn, ackConn, nDelivered, purged,
                    phase, frameVars, tsscVars, statVars, modeVars, timeVars, sendVars >>

\* ThreadSafeQueue::Dequeue: the record at the head.
Dequeue(q) == Head(q)

\* RunCallbackThread: leave the loop while disconnecting, else dequeue the next
\* record.
RunCallbackThread ==
    /\ Running
    /\ callbackThread.pc = "check"
    /\ \/ /\ m_disconnecting
          /\ callbackThread' = [callbackThread EXCEPT !.pc = "done"]
          /\ UNCHANGED m_callbackQueue
       \/ /\ ~m_disconnecting
          /\ Len(m_callbackQueue) > 0
          /\ callbackThread' = [callbackThread EXCEPT
                !.pc = IF Dequeue(m_callbackQueue).fn = "data" THEN "decode" ELSE "invoke",
                !.item = Dequeue(m_callbackQueue)]
          /\ m_callbackQueue' = Tail(m_callbackQueue)
    /\ UNCHANGED << cfgVars, flagVars, netVars, budgetVars, cacheVars,
                    queueReleased, nDispatched, commandThread, dataThread, caller,
                    m_autoReconnectCallback, udpDataChannel, m_cancel, liveConn,
                    ackConn, nDelivered, purged, phase, frameVars, tsscVars, statVars, modeVars, timeVars, sendVars >>

\* RunCallbackThread woken by Release() with m_disconnecting already cleared
\* again: Dequeue on the empty queue yields no valid record, the thread calls
\* through an invalid function pointer and the process ends.
RunCallbackThread_Empty ==
    /\ Running
    /\ callbackThread.pc = "check"
    /\ ~m_disconnecting
    /\ Len(m_callbackQueue) = 0
    /\ callbackThread' = [callbackThread EXCEPT !.pc = "crashed"]
    /\ UNCHANGED << cfgVars, flagVars, netVars, budgetVars, cacheVars, queueVars,
                    commandThread, dataThread, caller,
                    m_autoReconnectCallback, udpDataChannel, m_cancel, liveConn,
                    ackConn, nDelivered, purged, phase, frameVars, tsscVars, statVars, modeVars, timeVars, sendVars >>

\* SignalIndexCache::GetMeasurementKey: the entries of the signal index.
GetMeasurementKey(cache, id) == { e \in cache : e[1] = id }

\* The body of the decoding loop: a tuple whose id has a key in the cache
\* becomes a measurement, a tuple without is skipped.
\* A faulty body that makes a measurement of every tuple.
PushMeasurement_Always(measurements, cache, id) ==
    Append(measurements,
           IF GetMeasurementKey(cache, id) # {}
           THEN CHOOSE e \in GetMeasurementKey(cache, id) : TRUE
           ELSE << id, 0 >>)

PushMeasurement(measurements, cache, id) ==
    IF GetMeasurementKey(cache, id) # {}
    THEN Append(measurements, CHOOSE e \in GetMeasurementKey(cache, id) : TRUE)
    ELSE measurements

\* m_tsscSequenceNumber++ in 16 bits, and no increment to 0 on roll-over.
\* A faulty increment that rolls over to 0.
NextSequenceNumber_RollOver(n) == (n + 1) % 65536

NextSequenceNumber(n) ==
    IF (n + 1) % 65536 = 0 THEN 1 ELSE (n + 1) % 65536

\* The expected sequence number when the parse of an accepted packet ends,
\* whether the try block raised or not.
\* A faulty end that advances only after a decoding without error.
SequenceAfter_OnSuccess(n, raised) == IF raised THEN n ELSE NextSequenceNumber(n)

SequenceAfter(n, raised) == NextSequenceNumber(n)

\* What ParseTSSCMeasurements leaves in the history when it returns.
Parsed(pkt, msgs, measurements) ==
    [pkt |-> pkt, expected |-> m_tsscSequenceNumber,
     resetRequested |-> m_tsscResetRequested,
     requestedAtTest |-> IF callbackThread.pc = "parse" THEN requestedAtTest
                         ELSE m_tsscResetRequested,
     msgs |-> msgs, measurements |-> measurements]

\* NewMeasurementsDispatcher on a compact packet: the measurement count is
\* added to the statistics and the measurements are resolved against
\* m_signalIndexCache as it is when the callback thread decodes.
NewMeasurementsDispatcher ==
    /\ Running
    /\ callbackThread.pc = "decode"
    /\ ~callbackThread.item.data.compressed
    /\ m_totalMeasurementsReceived' =
            m_totalMeasurementsReceived + callbackThread.item.data.count
    /\ callbackThread' = [callbackThread EXCEPT !.pc = "invoke",
                                                !.seen = m_signalIndexCache]
    /\ UNCHANGED << cfgVars, flagVars, netVars, budgetVars, cacheVars, queueVars,
                    commandThread, dataThread, caller, m_autoReconnectCallback,
                    udpDataChannel, m_cancel, liveConn, ackConn, nDelivered, purged,
                    phase, frameVars, tsscVars, m_totalCommandChannelBytesReceived,
                    modeVars, timeVars, sendVars >>

\* m_tsscResetRequested after the test for a reset by the publisher.
\* A faulty reset that leaves the request pending.
RequestedAfter_Kept(reset) == m_tsscResetRequested

RequestedAfter(reset) == IF reset THEN FALSE ELSE m_tsscResetRequested

\* The test that ends the parse of a packet out of sequence.
\* A faulty test that lets packets ahead of the expected one through.
OutOfSequence_Behind(expected, sequenceNumber) == sequenceNumber < expected

OutOfSequence(expected, sequenceNumber) == expected # sequenceNumber

\* NewMeasurementsDispatcher on a compressed packet, up to the try block of
\* ParseTSSCMeasurements: the count is added to the statistics; a version
\* byte other than 85 throws SubscriberException, which nothing on the
\* callback thread catches, so it leaves the thread function and the process
\* ends; a sequence number 0 while a greater one is expected resets the
\* decoder; a sequence number other than the expected one ends the parse,
\* and the callback gets the empty list of measurements.
ParseTSSCMeasurements ==
    /\ Running
    /\ callbackThread.pc = "decode"
    /\ callbackThread.item.data.compressed
    /\ m_totalMeasurementsReceived' =
            m_totalMeasurementsReceived + callbackThread.item.data.count
    /\ LET pkt == callbackThread.item.data
           reset == pkt.sequenceNumber = 0 /\ m_tsscSequenceNumber > 0
           expected == IF reset THEN 0 ELSE m_tsscSequenceNumber
           requested == RequestedAfter(reset)
           msg == IF reset /\ ~m_tsscResetRequested
                  THEN << "TSSC algorithm reset before sequence number" >>
                  ELSE IF OutOfSequence(expected, pkt.sequenceNumber) /\ ~requested
                  THEN << "TSSC is out of sequence" >>
                  ELSE << >>
       IN
         \/ /\ pkt.version # TsscVersion
            /\ callbackThread' = [callbackThread EXCEPT !.pc = "crashed"]
            /\ UNCHANGED << tsscVars, queueVars >>
         \/ /\ pkt.version = TsscVersion
            /\ m_tsscMeasurementParser' = IF reset THEN 0 ELSE m_tsscMeasurementParser
            /\ m_tsscSequenceNumber' = expected
            /\ m_tsscResetRequested' = requested
            /\ IF msg = << >> THEN UNCHANGED queueVars
               ELSE Dispatch(IF reset THEN "status" ELSE "error", "cb", {}, msg[1])
            /\ IF OutOfSequence(expected, pkt.sequenceNumber)
               THEN /\ callbackThread' = [callbackThread EXCEPT !.pc = "invoke",
                                                                !.msgs = msg]
                    /\ parsed' = Append(parsed, Parsed(pkt, msg, << >>))
                    /\ UNCHANGED requestedAtTest
               ELSE /\ callbackThread' = [callbackThread EXCEPT !.pc = "parse",
                                                                !.k = 1, !.msgs = msg]
                    /\ requestedAtTest' = m_tsscResetRequested
                    /\ UNCHANGED parsed
    /\ UNCHANGED << cfgVars, flagVars, netVars, budgetVars, cacheVars,
                    commandThread, dataThread, caller, m_autoReconnectCallback,
                    udpDataChannel, m_cancel, liveConn, ackConn, nDelivered, purged,
                    phase, frameVars, m_totalCommandChannelBytesReceived,
                    modeVars, timeVars, sendVars >>

\* ParseTSSCMeasurements, one TryGetMeasurement call of the loop in the try
\* block: a tuple whose id has an entry in m_signalIndexCache is appended to
\* the measurements, one without is skipped; when the call returns false or
\* raises, the loop ends, a raised error is dispatched as an error message
\* and the sequence number advances.
ParseTSSCMeasurements_Loop ==
    /\ Running
    /\ callbackThread.pc = "parse"
    /\ LET pkt == callbackThread.item.data
           k == callbackThread.k
           raised == pkt.raises = k
       IN
         \/ /\ ~raised
            /\ k <= Len(pkt.ids)
            /\ callbackThread' = [callbackThread EXCEPT
                    !.k = k + 1,
                    !.measurements =
                        PushMeasurement(@, m_signalIndexCache, pkt.ids[k])]
            /\ m_tsscMeasurementParser' = m_tsscMeasurementParser + 1
            /\ UNCHANGED << m_tsscSequenceNumber, m_tsscResetRequested, parsed,
                            requestedAtTest, queueVars >>
         \/ /\ (raised \/ k > Len(pkt.ids))
            /\ LET msgs == IF raised
                           THEN Append(callbackThread.msgs, "Decompression failure")
                           ELSE callbackThread.msgs
               IN
                 /\ IF raised
                    THEN Dispatch("error", "cb", {}, "Decompression failure")
                    ELSE UNCHANGED queueVars
                 /\ parsed' = Append(parsed,
                                     Parsed(pkt, msgs, callbackThread.measurements))
                 /\ callbackThread' = [callbackThread EXCEPT !.pc = "invoke",
                                                             !.msgs = msgs]
            /\ m_tsscSequenceNumber' = SequenceAfter(m_tsscSequenceNumber, raised)
            /\ requestedAtTest' = FALSE
            /\ UNCHANGED << m_tsscResetRequested, m_tsscMeasurementParser >>
    /\ UNCHANGED << cfgVars, flagVars, netVars, budgetVars, cacheVars,
                    commandThread, dataThread, caller, m_autoReconnectCallback,
                    udpDataChannel, m_cancel, liveConn, ackConn, nDelivered, purged,
                    phase, frameVars, statVars, modeVars, timeVars, sendVars >>

\* The user callback of the record returns; the thread waits again.
CallbackReturn ==
    /\ callbackThread.pc = "invoke"
    /\ callbackThread' = [callbackThread EXCEPT !.pc = "wait", !.item = NoItem,
                                                !.seen = {}, !.k = 0,
                                                !.measurements = << >>,
                                                !.msgs = << >>]
    /\ nDelivered' = [nDelivered EXCEPT ![callbackThread.item.ch] = callbackThread.item.seq]
    /\ UNCHANGED << purged, cfgVars, flagVars, netVars, budgetVars, cacheVars, queueVars,
                    commandThread, dataThread, caller, m_autoReconnectCallback,
                    udpDataChannel, m_cancel, liveConn, ackConn, phase, frameVars, tsscVars, statVars, modeVars, timeVars, sendVars >>

\* ------------------------------------------------------------- Disconnect
\* Disconnect(bool), first part: raise m_disconnecting, clear m_connected and
\* m_subscribed, release the queue, close both sockets.
DisconnectFlags ==
    /\ m_disconnecting' = TRUE
    /\ m_connected' = FALSE
    /\ m_subscribed' = FALSE
    /\ queueReleased' = TRUE
    /\ sockOpen' = FALSE
    /\ udpOpen' = FALSE
    /\ liveConn' = 0
    /\ ackConn' = 0
    /\ UNCHANGED << cfgVars, peerOpen, budgetVars, cacheVars, m_callbackQueue,
                    nDispatched, commandThread, dataThread,
                    m_autoReconnectCallback, udpDataChannel, m_cancel,
                    nDelivered, purged, frameVars, tsscVars, statVars, modeVars, timeVars, sendVars >>

Disconnect_Begin(t) ==
    /\ Running
    /\ caller[t].pc = "d_begin"
    /\ DisconnectFlags
    /\ caller' = [caller EXCEPT ![t].pc = "d_joinCb"]
    /\ phase' = IF t = User /\ AllTermIdle THEN 1 ELSE 0
    /\ UNCHANGED callbackThread

JoinDone(th) == th.pc \in {"none", "done"}

\* m_callbackThread.join()
Disconnect_JoinCallback(t) ==
    /\ Running
    /\ caller[t].pc = "d_joinCb"
    /\ JoinDone(callbackThread)
    /\ callbackThread' = [callbackThread EXCEPT !.pc = "none"]
    /\ caller' = [caller EXCEPT ![t].pc = "d_joinCmd"]
    /\ UNCHANGED << cfgVars, flagVars, netVars, budgetVars, cacheVars, queueVars,
                    commandThread, dataThread, m_autoReconnectCallback,
                    udpDataChannel, m_cancel, liveConn, ackConn, nDelivered, purged,
                    phase, frameVars, tsscVars, statVars, modeVars, timeVars, sendVars >>

\* m_commandChannelResponseThread.join()
Disconnect_JoinCommand(t) ==
    /\ Running
    /\ caller[t].pc = "d_joinCmd"
    /\ JoinDone(commandThread)
    /\ commandThread' = [commandThread EXCEPT !.pc = "none"]
    /\ caller' = [caller EXCEPT ![t].pc = "d_joinData"]
    /\ UNCHANGED << cfgVars, flagVars, netVars, budgetVars, cacheVars, queueVars,
                    callbackThread, dataThread, m_autoReconnectCallback,
                    udpDataChannel, m_cancel, liveConn, ackConn, nDelivered, purged,
                    phase, frameVars, tsscVars, statVars, modeVars, timeVars, sendVars >>

\* m_dataChannelResponseThread.join()
Disconnect_JoinData(t) ==
    /\ Running
    /\ caller[t].pc = "d_joinData"
    /\ JoinDone(dataThread)
    /\ dataThread' = [dataThread EXCEPT !.pc = "none"]
    /\ caller' = [caller EXCEPT ![t].pc = "d_clear"]
    /\ UNCHANGED << cfgVars, flagVars, netVars, budgetVars, cacheVars, queueVars,
                    callbackThread, commandThread, m_autoReconnectCallback,
                    udpDataChannel, m_cancel, liveConn, ackConn, nDelivered, purged,
                    phase, frameVars, tsscVars, statVars, modeVars, timeVars, sendVars >>

\* m_callbackQueue.Clear(); m_callbackQueue.Reset()
\* A faulty purge that re-arms the queue without emptying it.
Disconnect_Clear_Keep(t) ==
    /\ Running
    /\ caller[t].pc = "d_clear"
    /\ queueReleased' = FALSE
    /\ purged' = purged \cup { << m_callbackQueue[j].conn, m_callbackQueue[j].ch,
                                  m_callbackQueue[j].seq >> :
                                        j \in 1..Len(m_callbackQueue) }
    /\ caller' = [caller EXCEPT ![t].pc = "d_notify"]
    /\ UNCHANGED << cfgVars, flagVars, netVars, budgetVars, cacheVars,
                    m_callbackQueue,
                    nDispatched, threadVars, m_autoReconnectCallback,
                    udpDataChannel, m_cancel, liveConn, ackConn, nDelivered,
                    phase, frameVars, tsscVars, statVars, modeVars, timeVars, sendVars >>

Disconnect_Clear(t) ==
    /\ Running
    /\ caller[t].pc = "d_clear"
    /\ m_callbackQueue' = << >>
    /\ queueReleased' = FALSE
    /\ purged' = purged \cup { << m_callbackQueue[j].conn, m_callbackQueue[j].ch,
                                  m_callbackQueue[j].seq >> :
                                        j \in 1..Len(m_callbackQueue) }
    /\ caller' = [caller EXCEPT ![t].pc = "d_notify"]
    /\ UNCHANGED << cfgVars, flagVars, netVars, budgetVars, cacheVars,
                    nDispatched, threadVars, m_autoReconnectCallback,
                    udpDataChannel, m_cancel, liveConn, ackConn, nDelivered,
                    phase, frameVars, tsscVars, statVars, modeVars, timeVars, sendVars >>

\* if (m_connectionTerminatedCallback != nullptr) m_connectionTerminatedCallback(this)
Disconnect_Notify(t) ==
    /\ Running
    /\ caller[t].pc = "d_notify"
    /\ caller' = IF m_connectionTerminatedCallback
                 THEN [caller EXCEPT ![t].pc = "d_inTermCb",
                                     ![t].cbs = Append(@, "terminated")]
                 ELSE [caller EXCEPT ![t].pc = "d_auto"]
    /\ UNCHANGED << cfgVars, flagVars, netVars, budgetVars, cacheVars, queueVars,
                    threadVars, m_autoReconnectCallback, udpDataChannel,
                    m_cancel, liveConn, ackConn, nDelivered, purged, phase, frameVars, tsscVars, statVars, modeVars, timeVars, sendVars >>

\* The connection-terminated callback returns.
Disconnect_NotifyReturn(t) ==
    /\ Running
    /\ caller[t].pc = "d_inTermCb"
    /\ caller' = [caller EXCEPT ![t].pc = "d_auto"]
    /\ UNCHANGED << cfgVars, flagVars, netVars, budgetVars, cacheVars, queueVars,
                    threadVars, m_autoReconnectCallback, udpDataChannel,
                    m_cancel, liveConn, ackConn, nDelivered, purged, phase, frameVars, tsscVars, statVars, modeVars, timeVars, sendVars >>

\* The autoReconnect argument: the application's Disconnect() passes false, the
\* thread running ConnectionTerminatedDispatcher passes true.
AutoReconnectArg(t) == t # User

\* if (autoReconnect) { if (m_autoReconnectCallback != nullptr) ...(this); }
\* else m_connector.Cancel();
Disconnect_Auto(t) ==
    /\ Running
    /\ caller[t].pc = "d_auto"
    /\ \/ /\ AutoReconnectArg(t)
          /\ m_autoReconnectCallback
          /\ caller' = [caller EXCEPT ![t].pc = "ar_begin",
                                      ![t].cbs = Append(@, "autoReconnect")]
          /\ UNCHANGED m_cancel
       \/ /\ AutoReconnectArg(t)
          /\ ~m_autoReconnectCallback
          /\ caller' = [caller EXCEPT ![t].pc = "d_end"]
          /\ UNCHANGED m_cancel
       \/ /\ ~AutoReconnectArg(t)
          /\ m_cancel' = TRUE
          /\ caller' = [caller EXCEPT ![t].pc = "d_end"]
    /\ UNCHANGED << cfgVars, flagVars, netVars, budgetVars, cacheVars, queueVars,
                    threadVars, m_autoReconnectCallback, udpDataChannel,
                    liveConn, ackConn, nDelivered, purged, phase, frameVars, tsscVars, statVars, modeVars, timeVars, sendVars >>

\* A faulty end of Disconnect that leaves m_disconnecting raised.
Disconnect_End_Raised(t) ==
    /\ Running
    /\ caller[t].pc = "d_end"
    /\ caller' = [caller EXCEPT ![t].pc = "idle"]
    /\ phase' = IF t # User THEN phase
              ELSE IF phase = 1 /\ AllTermIdle THEN 2 ELSE 0
    /\ UNCHANGED << cfgVars, flagVars, netVars, budgetVars,
                    cacheVars, queueVars, threadVars, m_autoReconnectCallback,
                    udpDataChannel, m_cancel, liveConn, ackConn, nDelivered,
                    purged, frameVars, tsscVars, statVars, modeVars, timeVars, sendVars >>

\* m_disconnecting = false; Disconnect returns.
Disconnect_End(t) ==
    /\ Running
    /\ caller[t].pc = "d_end"
    /\ m_disconnecting' = FALSE
    /\ caller' = [caller EXCEPT ![t].pc = "idle"]
    /\ phase' = IF t # User THEN phase
              ELSE IF phase = 1 /\ AllTermIdle THEN 2 ELSE 0
    /\ UNCHANGED << cfgVars, m_connected, m_subscribed, netVars, budgetVars,
                    cacheVars, queueVars, threadVars, m_autoReconnectCallback,
                    udpDataChannel, m_cancel, liveConn, ackConn, nDelivered, purged,
                    frameVars, tsscVars, statVars, modeVars, timeVars, sendVars >>

\* A user callback running on the callback thread calls Disconnect():
\* the first part of Disconnect, then m_callbackThread.join() on itself.
Callback_Disconnect ==
    /\ callbackThread.pc = "invoke"
    /\ DisconnectFlags
    /\ callbackThread' = [callbackThread EXCEPT !.pc = "selfjoin"]
    /\ phase' = 0
    /\ UNCHANGED caller

\* join() of the calling thread throws (resource_deadlock_would_occur); the
\* exception leaves the thread function and the process ends.
Callback_SelfJoin ==
    /\ callbackThread.pc = "selfjoin"
    /\ callbackThread' = [callbackThread EXCEPT !.pc = "crashed"]
    /\ UNCHANGED << cfgVars, flagVars, netVars, budgetVars, cacheVars, queueVars,
                    commandThread, dataThread, caller, m_autoReconnectCallback,
                    udpDataChannel, m_cancel, liveConn, ackConn, nDelivered, purged,
                    phase, frameVars, tsscVars, statVars, modeVars, timeVars, sendVars >>

\* SendOperationalModes: the modes are computed from the settings as they are
\* and sent in a DefineOperationalModes command.
OperationalModes(payloadData, metadata, signalIndexCache, udp) ==
    {"GZip", "UTF8", "UseCommonSerializationFormat"}
    \cup (IF payloadData /\ ~udp THEN {"CompressPayloadData", "TSSC"} ELSE {})
    \cup (IF metadata THEN {"CompressMetadata"} ELSE {})
    \cup (IF signalIndexCache THEN {"CompressSignalIndexCache"} ELSE {})

SendOperationalModes(payloadData, metadata, signalIndexCache) ==
    sentModes' = OperationalModes(payloadData, metadata, signalIndexCache,
                                  udpDataChannel)

\* ------------------------------------------------------ SubscriberConnector
\* AutoReconnect, before connector.Connect: the notification that a reconnect
\* is being attempted.
AutoReconnect_Begin(t) ==
    /\ Running
    /\ caller[t].pc = "ar_begin"
    /\ caller' = [caller EXCEPT ![t].pc = "cc_begin"]
    /\ UNCHANGED << cfgVars, flagVars, netVars, budgetVars, cacheVars, queueVars,
                    threadVars, m_autoReconnectCallback, udpDataChannel,
                    m_cancel, liveConn, ackConn, nDelivered, purged, phase, frameVars, tsscVars, statVars, modeVars, timeVars, sendVars >>

\* SubscriberConnector::Connect: register AutoReconnect when m_autoReconnect,
\* clear m_cancel, i = 0.
Connector_Begin(t) ==
    /\ Running
    /\ caller[t].pc = "cc_begin"
    /\ m_autoReconnectCallback' = (m_autoReconnectCallback \/ m_autoReconnect)
    /\ m_cancel' = FALSE
    /\ caller' = [caller EXCEPT ![t].pc = "cc_loop", ![t].i = 0,
                                ![t].attempts = 0, ![t].errs = 0]
    /\ UNCHANGED << cfgVars, flagVars, netVars, budgetVars, cacheVars, queueVars,
                    threadVars, udpDataChannel, liveConn, ackConn, nDelivered, purged,
                    phase, frameVars, tsscVars, statVars, modeVars, timeVars, sendVars >>

\* The condition of the retry loop.
\* A faulty condition that allows one attempt more.
LoopTest_Inclusive(i) == ~m_cancel /\ (m_maxRetries = -1 \/ i <= m_maxRetries)

\* A faulty condition that does not look at m_cancel.
LoopTest_NoCancel(i) == m_maxRetries = -1 \/ i < m_maxRetries

LoopTest(i) == ~m_cancel /\ (m_maxRetries = -1 \/ i < m_maxRetries)

\* In a sequence that retries without limit the loop counter is not compared
\* with anything, and neither it nor the attempts are counted.
Counted(n) == IF m_maxRetries = -1 THEN n ELSE n + 1

\* for (i = 0; !m_cancel && (m_maxRetries == -1 || i < m_maxRetries); i++)
Connector_Loop(t) ==
    /\ Running
    /\ caller[t].pc = "cc_loop"
    /\ caller' = IF LoopTest(caller[t].i)
                 THEN [caller EXCEPT ![t].pc = "sc_check"]
                 ELSE [caller EXCEPT ![t].pc = "cc_ret"]
    /\ UNCHANGED << cfgVars, flagVars, netVars, budgetVars, cacheVars, queueVars,
                    threadVars, m_autoReconnectCallback, udpDataChannel,
                    m_cancel, liveConn, ackConn, nDelivered, purged, phase, frameVars, tsscVars, statVars, modeVars, timeVars, sendVars >>

\* DataSubscriber::Connect up to the socket connect: the statistics are
\* zeroed, then it throws when m_connected ("cc_already"), throws when the
\* publisher cannot be reached ("cc_fail").
Connect_Check(t) ==
    /\ Running
    /\ caller[t].pc = "sc_check"
    /\ m_totalCommandChannelBytesReceived' = 0
    /\ m_totalMeasurementsReceived' = 0
    /\ \/ /\ m_connected
          /\ caller' = [caller EXCEPT ![t].pc = "cc_already",
                                      ![t].attempts = Counted(@)]
          /\ UNCHANGED << netVars, connNo, liveConn >>
       \/ /\ ~m_connected
          /\ caller' = [caller EXCEPT ![t].pc = "cc_fail",
                                      ![t].attempts = Counted(@)]
          /\ sockOpen' = FALSE
          /\ UNCHANGED << peerOpen, udpOpen, connNo, liveConn >>
       \/ /\ ~m_connected
          /\ connNo < MaxConn
          /\ caller' = [caller EXCEPT ![t].pc = "sc_spawn",
                                      ![t].attempts = Counted(@)]
          /\ sockOpen' = TRUE
          /\ peerOpen' = TRUE
          /\ connNo' = connNo + 1
          /\ liveConn' = connNo + 1
          /\ UNCHANGED udpOpen
    /\ UNCHANGED << cfgVars, flagVars, framesLeft, callsLeft, cacheVars,
                    queueVars, threadVars, m_autoReconnectCallback,
                    udpDataChannel, m_cancel, ackConn, nDelivered, purged, phase,
                    frameVars, tsscVars, modeVars, timeVars, sendVars >>

\* DataSubscriber::Connect: m_commandChannelService.restart(), start the
\* callback thread and the command-channel reader, SendOperationalModes().
\* (The thread objects are free: at most one thread of each role exists.)
Connect_Spawn(t) ==
    /\ Running
    /\ caller[t].pc = "sc_spawn"
    /\ callbackThread.pc = "none"
    /\ commandThread.pc = "none"
    /\ callbackThread' = [pc |-> "wait", item |-> NoItem, seen |-> {},
                          k |-> 0, measurements |-> << >>, msgs |-> << >>]
    /\ commandThread' = [pc |-> "hdr", frame |-> NoFrame, k |-> 0,
                         conn |-> connNo, end |-> "", eof |-> FALSE]
    /\ caller' = [caller EXCEPT ![t].pc = "sc_set"]
    /\ SendOperationalModes(m_compressPayloadData, m_compressMetadata,
                            m_compressSignalIndexCache)
    /\ UNCHANGED << cfgVars, flagVars, netVars, budgetVars, cacheVars, queueVars,
                    dataThread, m_autoReconnectCallback, udpDataChannel,
                    m_cancel, liveConn, ackConn, nDelivered, purged, phase, frameVars, tsscVars, statVars,
                    m_compressPayloadData, m_compressMetadata,
                    m_compressSignalIndexCache, timeVars, sendVars >>

\* DataSubscriber::Connect: m_connected = true; the connector's loop breaks.
Connect_Set(t) ==
    /\ Running
    /\ caller[t].pc = "sc_set"
    /\ m_connected' = TRUE
    /\ caller' = [caller EXCEPT ![t].pc = "cc_ret"]
    /\ phase' = IF t = User /\ phase = 3 THEN 4 ELSE phase
    /\ UNCHANGED << cfgVars, m_subscribed, m_disconnecting, netVars, budgetVars,
                    cacheVars, queueVars, threadVars, m_autoReconnectCallback,
                    udpDataChannel, m_cancel, liveConn, ackConn, nDelivered, purged,
                    frameVars, tsscVars, statVars, modeVars, timeVars, sendVars >>

\* SubscriberConnector::Connect after a failed attempt: when a callback is
\* registered the error message is handed to a fresh thread; the retry
\* interval is waited, i++.
Connector_Fail(t) ==
    /\ Running
    /\ caller[t].pc \in {"cc_fail", "cc_already"}
    /\ caller' = [caller EXCEPT ![t].pc = "cc_loop",
                                ![t].i = Counted(@),
                                ![t].errs = IF m_errorMessageCallback
                                            THEN Counted(@) ELSE @]
    /\ UNCHANGED << cfgVars, flagVars, netVars, budgetVars, cacheVars, queueVars,
                    threadVars, m_autoReconnectCallback, udpDataChannel,
                    m_cancel, liveConn, ackConn, nDelivered, purged, phase, frameVars, tsscVars, statVars, modeVars, timeVars, sendVars >>

\* return subscriber.IsConnected(): to the application, or into AutoReconnect,
\* which notifies that the reconnect attempt completed and returns into
\* Disconnect(true).
Connector_Return(t) ==
    /\ Running
    /\ caller[t].pc = "cc_ret"
    /\ caller' = [caller EXCEPT ![t].pc = IF t = User THEN "idle" ELSE "d_end"]
    /\ UNCHANGED << cfgVars, flagVars, netVars, budgetVars, cacheVars, queueVars,
                    threadVars, m_autoReconnectCallback, udpDataChannel,
                    m_cancel, liveConn, ackConn, nDelivered, purged, phase, frameVars, tsscVars, statVars, modeVars, timeVars, sendVars >>

\* ---------------------------------------------------- Subscribe, Unsubscribe
\* Subscribe(): if (m_subscribed) Unsubscribe();
Subscribe_Begin ==
    /\ Running
    /\ caller[User].pc = "s_begin"
    /\ caller' = [caller EXCEPT ![User].pc = IF m_subscribed THEN "su_begin" ELSE "s_send"]
    /\ UNCHANGED << cfgVars, flagVars, netVars, budgetVars, cacheVars, queueVars,
                    threadVars, m_autoReconnectCallback, udpDataChannel,
                    m_cancel, liveConn, ackConn, nDelivered, purged, phase, frameVars, tsscVars, statVars, modeVars, timeVars, sendVars >>

\* Unsubscribe(): m_disconnecting = true; shut down and close the UDP socket.
Unsubscribe_Begin ==
    /\ Running
    /\ caller[User].pc \in {"u_begin", "su_begin"}
    /\ m_disconnecting' = TRUE
    /\ udpOpen' = FALSE
    /\ caller' = [caller EXCEPT ![User].pc = IF @ = "u_begin" THEN "u_join" ELSE "su_join"]
    /\ UNCHANGED << cfgVars, m_connected, m_subscribed, sockOpen, peerOpen,
                    budgetVars, cacheVars, queueVars, threadVars,
                    m_autoReconnectCallback, udpDataChannel, m_cancel, liveConn,
                    ackConn, nDelivered, purged, phase, frameVars, tsscVars, statVars, modeVars, timeVars, sendVars >>

\* Unsubscribe(): m_dataChannelResponseThread.join()
Unsubscribe_Join ==
    /\ Running
    /\ caller[User].pc \in {"u_join", "su_join"}
    /\ JoinDone(dataThread)
    /\ dataThread' = [dataThread EXCEPT !.pc = "none"]
    /\ caller' = [caller EXCEPT ![User].pc = IF @ = "u_join" THEN "u_end" ELSE "su_end"]
    /\ UNCHANGED << cfgVars, flagVars, netVars, budgetVars, cacheVars, queueVars,
                    callbackThread, commandThread, m_autoReconnectCallback,
                    udpDataChannel, m_cancel, liveConn, ackConn, nDelivered, purged,
                    phase, frameVars, tsscVars, statVars, modeVars, timeVars, sendVars >>

\* Unsubscribe(): m_disconnecting = false; SendServerCommand(Unsubscribe).
Unsubscribe_End ==
    /\ Running
    /\ caller[User].pc \in {"u_end", "su_end"}
    /\ m_disconnecting' = FALSE
    /\ caller' = [caller EXCEPT ![User].pc = IF @ = "u_end" THEN "idle" ELSE "s_send"]
    /\ UNCHANGED << cfgVars, m_connected, m_subscribed, netVars, budgetVars,
                    cacheVars, queueVars, threadVars, m_autoReconnectCallback,
                    udpDataChannel, m_cancel, liveConn, ackConn, nDelivered, purged,
                    phase, frameVars, tsscVars, statVars, modeVars, timeVars, sendVars >>

\* Subscribe(): zero the measurement count; with a UDP data channel open and
\* bind the socket (which throws when it is already open) and start the data
\* reader; send the Subscribe command; request the reset of the TSSC decoder.
Subscribe_Send ==
    /\ Running
    /\ caller[User].pc = "s_send"
    /\ m_totalMeasurementsReceived' = 0
    /\ m_tsscResetRequested' = TRUE
    /\ \/ /\ ~udpDataChannel
          /\ UNCHANGED << udpOpen, dataThread >>
       \/ /\ udpDataChannel
          /\ udpOpen
          /\ UNCHANGED << udpOpen, dataThread >>
       \/ /\ udpDataChannel
          /\ ~udpOpen
          /\ dataThread.pc = "none"
          /\ udpOpen' = TRUE
          /\ dataThread' = [dataThread EXCEPT !.pc = "recv"]
    /\ caller' = [caller EXCEPT ![User].pc = "idle"]
    /\ UNCHANGED << cfgVars, flagVars, sockOpen, peerOpen, budgetVars, cacheVars,
                    queueVars, callbackThread, commandThread,
                    m_autoReconnectCallback, udpDataChannel, m_cancel, liveConn,
                    ackConn, nDelivered, purged, phase, frameVars,
                    m_tsscSequenceNumber, m_tsscMeasurementParser, parsed,
                    requestedAtTest,
                    m_totalCommandChannelBytesReceived, modeVars, timeVars, sendVars >>

\* --------------------------------------------------------- the application
\* The application thread makes its next API call.
Call(op, udp) ==
    /\ Running
    /\ caller[User].pc = "idle"
    /\ callsLeft > 0
    /\ callsLeft' = callsLeft - 1
    /\ caller' = [caller EXCEPT ![User] = [pc |-> op, i |-> 0, cbs |-> << >>, quiet |-> AtRest,
                                           attempts |-> 0, errs |-> 0]]
    /\ udpDataChannel' = IF op = "s_begin" THEN udp ELSE udpDataChannel
    /\ phase' = IF op = "cc_begin" /\ phase = 2 THEN 3 ELSE 0
    /\ UNCHANGED << cfgVars, flagVars, netVars, framesLeft, connNo, cacheVars,
                    queueVars, threadVars, m_autoReconnectCallback, m_cancel,
                    liveConn, ackConn, nDelivered, purged, frameVars, tsscVars, statVars, modeVars, timeVars, sendVars >>

CallConnect == Call("cc_begin", FALSE)
CallDisconnect == Call("d_begin", FALSE)
CallSubscribe == \E udp \in BOOLEAN : Call("s_begin", udp)
CallSubscribeTcp == Call("s_begin", FALSE)
CallUnsubscribe == Call("u_begin", FALSE)

\* What the compression setters leave alone.
SetterUnchanged ==
    UNCHANGED << lifeVars, frameVars, tsscVars, statVars, timeVars, sendVars >>

\* SetPayloadDataCompressed: the setting is stored; nothing is sent.
SetPayloadDataCompressed(compressed) ==
    /\ Running
    /\ caller[User].pc = "idle"
    /\ m_compressPayloadData' = compressed
    /\ UNCHANGED << m_compressMetadata, m_compressSignalIndexCache, sentModes >>
    /\ SetterUnchanged

\* SetMetadataCompressed: the setting is stored and, when the command
\* channel socket is open, the operational modes are sent.
SetMetadataCompressed(compressed) ==
    /\ Running
    /\ caller[User].pc = "idle"
    /\ m_compressMetadata' = compressed
    /\ IF sockOpen
       THEN SendOperationalModes(m_compressPayloadData, compressed,
                                 m_compressSignalIndexCache)
       ELSE UNCHANGED sentModes
    /\ UNCHANGED << m_compressPayloadData, m_compressSignalIndexCache >>
    /\ SetterUnchanged

\* SetSignalIndexCacheCompressed: likewise.
SetSignalIndexCacheCompressed(compressed) ==
    /\ Running
    /\ caller[User].pc = "idle"
    /\ m_compressSignalIndexCache' = compressed
    /\ IF sockOpen
       THEN SendOperationalModes(m_compressPayloadData, m_compressMetadata,
                                 compressed)
       ELSE UNCHANGED sentModes
    /\ UNCHANGED << m_compressPayloadData, m_compressMetadata >>
    /\ SetterUnchanged

\* SubscriberConnector::Cancel, called by a thread of the application other
\* than the one that is inside Connect.
Cancel ==
    /\ Running
    /\ ~m_cancel
    /\ m_cancel' = TRUE
    /\ UNCHANGED << cfgVars, flagVars, netVars, budgetVars, cacheVars, queueVars,
                    threadVars, caller, m_autoReconnectCallback, udpDataChannel,
                    liveConn, ackConn, nDelivered, purged, phase, frameVars,
                    tsscVars, statVars, modeVars, timeVars, sendVars >>

\* The publisher closes the connection.
PeerClose ==
    /\ Running
    /\ sockOpen
    /\ peerOpen
    /\ peerOpen' = FALSE
    /\ UNCHANGED << cfgVars, flagVars, sockOpen, udpOpen, budgetVars, cacheVars,
                    queueVars, threadVars, caller, m_autoReconnectCallback,
                    udpDataChannel, m_cancel, liveConn, ackConn, nDelivered, purged,
                    phase, frameVars, tsscVars, statVars, modeVars, timeVars, sendVars >>

\* SubscriberConnector::SetAutoReconnect, called by the application while
\* the subscriber is connected to the publisher: the setting is stored and
\* nothing else changes.
SetAutoReconnect(autoReconnect) ==
    /\ Running
    /\ caller[User].pc = "idle"
    /\ m_connected
    /\ peerOpen
    /\ m_autoReconnect # autoReconnect
    /\ m_autoReconnect' = autoReconnect
    /\ UNCHANGED << m_maxRetries, m_connectionTerminatedCallback,
                    m_errorMessageCallback, flagVars, netVars, budgetVars,
                    cacheVars, queueVars, threadVars, caller,
                    m_autoReconnectCallback, udpDataChannel, m_cancel, liveConn,
                    ackConn, nDelivered, purged, phase, frameVars, tsscVars,
                    statVars, modeVars, timeVars, sendVars >>

\* ------------------------------------------------- the reader, byte level
\* The offset of the packet size in the payload header.
PacketSizeOffset == 4

\* EndianConverter::ConvertLittleEndian on the four bytes b[1..4] of a uint32
\* (four bytes cannot exceed the 32 bits of the result).
ConvertLittleEndian(b) ==
    b[1] + 256 * b[2] + 65536 * b[3] + 16777216 * b[4]

\* The four bytes of n, least significant first (the publisher's side).
LittleEndianBytes(n) ==
    << n % 256, (n \div 256) % 256, (n \div 65536) % 256, (n \div 16777216) % 256 >>

\* A valid frame: marker bytes, the little-endian payload size, the body.
PayloadMarker == << 170, 187, 204, 221 >>
EncodeFrame(body) == PayloadMarker \o LittleEndianBytes(Len(body)) \o body

RECURSIVE EncodeStream(_)
EncodeStream(fs) ==
    IF fs = << >> THEN << >> ELSE EncodeFrame(Head(fs)) \o EncodeStream(Tail(fs))

\* Bodies the publisher sends: each length, each fill byte.
Bodies == { [j \in 1..n |-> v] : n \in BodyLens, v \in BodyBytes }

\* Frame sequences of at most MaxStream frames.
RECURSIVE FrameSeqs(_)
FrameSeqs(n) ==
    IF n = 0 THEN { << >> }
    ELSE FrameSeqs(n - 1) \cup
         { Append(fs, b) : fs \in { x \in FrameSeqs(n - 1) : Len(x) = n - 1 },
                           b \in Bodies }

\* buffer(m_readBuffer, n): the first n bytes of the buffer receive the data.
\* Store d at offset off.
StoreAt(buf, off, d) ==
    [j \in 1..Len(buf) |-> IF j > off /\ j <= off + Len(d) THEN d[j - off] ELSE buf[j]]

\* m_readBuffer.resize(n), n > size: the contents are kept, zeros appended.
Resize(buf, n) == buf \o [j \in 1..(n - Len(buf)) |-> 0]

\* ------------------------------------------------------ SendServerCommand
\* The frame SendServerCommand lays out in m_writeBuffer: the payload marker,
\* the little-endian packet size, the command code, the data.
CommandFrame(commandCode, data) ==
    PayloadMarker \o LittleEndianBytes(1 + Len(data)) \o << commandCode >> \o data

\* The commands sent in SpecSend: Unsubscribe, DefineOperationalModes with
\* its four bytes, Subscribe with flags, length and connection string.
SentCommands ==
    { << ServerCommand.Unsubscribe, << >> >>,
      << ServerCommand.DefineOperationalModes, << 0, 0, 0, 3 >> >>,
      << ServerCommand.Subscribe, << 2, 0, 0, 0, 1, 59 >> >> }

\* SendServerCommand(commandCode, data, offset, length): grow m_writeBuffer
\* when the frame does not fit, lay out the frame at its start, and start an
\* asynchronous write of buffer(m_writeBuffer, commandBufferSize).  The write
\* refers to the memory of m_writeBuffer: growing the vector moves it and
\* leaves the writes already started with a pointer to freed memory.
SendServerCommand(commandCode, data) ==
    /\ Running
    /\ sockOpen
    /\ caller[User].pc = "idle"
    /\ Len(writes) + Len(wire) < MaxSends
    /\ LET commandBufferSize == 1 + Len(data) + 8
           grows == commandBufferSize > Len(m_writeBuffer)
           buffer == IF grows THEN Resize(m_writeBuffer, commandBufferSize)
                     ELSE m_writeBuffer
       IN  /\ m_writeBuffer' = StoreAt(buffer, 0, CommandFrame(commandCode, data))
           /\ writes' = Append([j \in 1..Len(writes) |->
                                   [writes[j] EXCEPT !.dangling = @ \/ grows]],
                               [size |-> commandBufferSize,
                                issued |-> CommandFrame(commandCode, data),
                                dangling |-> FALSE])
    /\ UNCHANGED << lifeVars, frameVars, tsscVars, statVars, modeVars, timeVars, wire >>

\* The oldest asynchronous write is carried out: the bytes go out as they
\* are in the memory the write refers to at that moment.  Freed memory holds
\* what it held when it was freed, or anything else.
AsyncWrite ==
    /\ Running
    /\ sockOpen
    /\ Len(writes) > 0
    /\ LET w == Head(writes)
       IN  \E bytes \in IF w.dangling
                        THEN {w.issued} \cup { [j \in 1..w.size |-> fill] : fill \in StaleBytes }
                        ELSE { SubSeq(m_writeBuffer, 1, w.size) } :
              wire' = Append(wire, [bytes |-> bytes, issued |-> w.issued])
    /\ writes' = Tail(writes)
    /\ UNCHANGED << lifeVars, frameVars, tsscVars, statVars, modeVars, timeVars,
                    m_writeBuffer >>

\* The reader is not running.
FrameInit ==
    /\ stream = << >>
    /\ m_readBuffer = << >>
    /\ readWant = 0
    /\ readGot = 0
    /\ readPc = "idle"
    /\ handed = << >>
    /\ frames = << >>

\* RunCommandChannelResponseThread: the first header read is issued; the
\* publisher sends the frames.
FrameStart ==
    /\ frames \in FrameSeqs(MaxStream)
    /\ stream = EncodeStream(frames)
    /\ m_readBuffer = [j \in 1..MaxPacketSize |-> 0]
    /\ readWant = PayloadHeaderSize
    /\ readGot = 0
    /\ readPc = "hdr"
    /\ handed = << >>

\* async_read: the socket delivers the next chunk, of any size up to what the
\* pending read still wants, into the buffer.
ReadSome ==
    /\ readPc \in {"hdr", "body"}
    /\ readGot < readWant
    /\ \E n \in 1..(readWant - readGot) :
         /\ n <= Len(stream)
         /\ m_readBuffer' = StoreAt(m_readBuffer, readGot, SubSeq(stream, 1, n))
         /\ readGot' = readGot + n
         /\ stream' = SubSeq(stream, n + 1, Len(stream))
    /\ UNCHANGED << readWant, readPc, handed, frames, lifeVars, tsscVars, statVars, modeVars, timeVars, sendVars >>

\* ReadPayloadHeader without error: all header bytes are in; take the packet
\* size, grow the buffer when needed, issue the body read.
\* A faulty size read, one byte early in the header.
PacketSize_OffByOne(buf) ==
    ConvertLittleEndian(SubSeq(buf, PacketSizeOffset, PacketSizeOffset + 3))

PacketSize(buf) ==
    ConvertLittleEndian(SubSeq(buf, PacketSizeOffset + 1, PacketSizeOffset + 4))

ReadPayloadHeader_Ok ==
    /\ readPc = "hdr"
    /\ readGot = readWant
    /\ LET packetSize == PacketSize(m_readBuffer) IN
         /\ m_readBuffer' = IF packetSize > Len(m_readBuffer)
                            THEN Resize(m_readBuffer, packetSize)
                            ELSE m_readBuffer
         /\ readWant' = packetSize
    /\ readGot' = 0
    /\ readPc' = "body"
    /\ UNCHANGED << stream, handed, frames, lifeVars, tsscVars, statVars, modeVars, timeVars, sendVars >>

\* ReadPacket without error: ProcessServerResponse(&m_readBuffer[0], 0,
\* bytesTransferred), then the next header read is issued.
ReadPacket_Ok ==
    /\ readPc = "body"
    /\ readGot = readWant
    /\ handed' = Append(handed, SubSeq(m_readBuffer, 1, readGot))
    /\ readWant' = PayloadHeaderSize
    /\ readGot' = 0
    /\ readPc' = "hdr"
    /\ UNCHANGED << stream, m_readBuffer, frames, lifeVars, tsscVars, statVars, modeVars, timeVars, sendVars >>

\* The state after the constructors (DataSubscriber, SubscriberConnector) and
\* the configuration calls made before the first Connect.
Construct ==
    /\ m_connected = FALSE
    /\ m_subscribed = FALSE
    /\ m_disconnecting = FALSE
    /\ m_signalIndexCache = {}
    /\ m_callbackQueue = << >>
    /\ queueReleased = FALSE
    /\ m_autoReconnectCallback = FALSE
    /\ m_connectionTerminatedCallback \in BOOLEAN
    /\ udpDataChannel = FALSE
    /\ m_cancel = FALSE
    /\ m_autoReconnect \in BOOLEAN
    /\ m_maxRetries \in -1..MaxRetries
    /\ m_errorMessageCallback \in BOOLEAN
    /\ sockOpen = FALSE
    /\ peerOpen = FALSE
    /\ udpOpen = FALSE
    /\ framesLeft \in {MaxFrames, SubFrames, TsscFrames, AutoFrames, SeqFrames,
                       CacheFrames, ModeFrames, RespFrames}
    /\ connNo = 0
    /\ callsLeft \in {MaxCalls, SubCalls, TsscCalls, RetryCalls, AutoCalls, SeqCalls,
                      CacheCalls, ModeCalls, RespCalls}
    /\ callbackThread = [pc |-> "none", item |-> NoItem, seen |-> {},
                         k |-> 0, measurements |-> << >>, msgs |-> << >>]
    /\ commandThread = [pc |-> "none", frame |-> NoFrame, k |-> 0, conn |-> 0,
                        end |-> "", eof |-> FALSE]
    /\ dataThread = [pc |-> "none"]
    /\ caller = [t \in Callers |-> [pc |-> "idle", i |-> 0, cbs |-> << >>, quiet |-> FALSE,
                                   attempts |-> 0, errs |-> 0]]
    /\ liveConn = 0
    /\ ackConn = 0
    /\ streamCache = {}
    /\ cacheBefore = {}
    /\ nDispatched = [ch \in Channels |-> 0]
    /\ nDelivered = [ch \in Channels |-> 0]
    /\ purged = {}
    /\ phase = 0
    /\ m_tsscSequenceNumber \in SeqStarts
    /\ m_tsscResetRequested = FALSE
    /\ m_tsscMeasurementParser = 0
    /\ parsed = << >>
    /\ requestedAtTest = FALSE
    /\ m_totalCommandChannelBytesReceived = 0
    /\ m_totalMeasurementsReceived = 0
    /\ m_compressPayloadData \in BOOLEAN
    /\ m_compressMetadata = TRUE
    /\ m_compressSignalIndexCache = TRUE
    /\ sentModes = {}
    /\ m_timeIndex = 0
    /\ m_baseTimeOffsets = << Int64(0), Int64(0) >>
    /\ m_writeBuffer = [j \in 1..WriteBufferSize |-> 0]
    /\ writes = << >>
    /\ wire = << >>

Init ==
    /\ Construct
    /\ m_tsscSequenceNumber = 0
    /\ m_compressPayloadData = TRUE
    /\ FrameInit

\* A step of the thread t inside Disconnect.
DisconnectStep(t) ==
    \/ Disconnect_Begin(t)
    \/ Disconnect_JoinCallback(t)
    \/ Disconnect_JoinCommand(t)
    \/ Disconnect_JoinData(t)
    \/ Disconnect_Clear(t)
    \/ Disconnect_Notify(t)
    \/ Disconnect_NotifyReturn(t)
    \/ Disconnect_Auto(t)
    \/ Disconnect_End(t)
    \/ AutoReconnect_Begin(t)

\* A step of the thread t inside SubscriberConnector::Connect.
ConnectStep(t) ==
    \/ Connector_Begin(t)
    \/ Connector_Loop(t)
    \/ Connect_Check(t)
    \/ Connect_Spawn(t)
    \/ Connect_Set(t)
    \/ Connector_Fail(t)
    \/ Connector_Return(t)

\* The callback thread's steps on records that carry no measurements.
PumpStep ==
    \/ CallbackWake
    \/ RunCallbackThread
    \/ CallbackReturn

\* The connection lifecycle: Connect and Disconnect by the application, the
\* publisher closing the connection, read errors, acknowledgements arriving.
Next ==
    \/ CallConnect
    \/ CallDisconnect
    \/ \E t \in Callers : DisconnectStep(t)
    \/ \E t \in Callers : ConnectStep(t)
    \/ PeerClose
    \/ ReadPayloadHeader
    \/ ReadPacket({"SubAck", "UnsubAck"})
    \/ ProcessSucceeded
    \/ PumpStep
    \/ RunCallbackThread_Empty
    \/ Callback_Disconnect
    \/ Callback_SelfJoin

LifeInit ==
    /\ Init
    /\ m_maxRetries = -1
    /\ m_errorMessageCallback = TRUE
    /\ framesLeft = MaxFrames
    /\ callsLeft = MaxCalls

Spec == LifeInit /\ [][Next]_vars

\* The subscription: Connect, Subscribe and Unsubscribe by the application,
\* every response kind arriving on the command channel, data packets on the
\* UDP channel, the callback thread decoding and delivering them.  The
\* behaviours end where a teardown would begin: the publisher may close the
\* connection, but the thread started for ConnectionTerminatedDispatcher is
\* not scheduled, and the application does not call Disconnect.  Payload
\* compression was turned off before the first Connect: the data packets are
\* in the compact format on either channel.
SubNext ==
    \/ CallConnect
    \/ CallSubscribe
    \/ CallUnsubscribe
    \/ ConnectStep(User)
    \/ Subscribe_Begin
    \/ Unsubscribe_Begin
    \/ Unsubscribe_Join
    \/ Unsubscribe_End
    \/ Subscribe_Send
    \/ PeerClose
    \/ ReadPayloadHeader
    \/ ReadPacket(FrameKinds)
    \/ ProcessSucceeded
    \/ ProcessDataPacket
    \/ ProcessUpdateSignalIndexCache
    \/ LoadSignalIndexCache
    \/ RunDataChannelResponseThread
    \/ PumpStep
    \/ NewMeasurementsDispatcher

SubInit ==
    /\ Construct
    /\ FrameInit
    /\ m_tsscSequenceNumber = 0
    /\ m_compressPayloadData = FALSE
    /\ m_maxRetries = -1
    /\ m_errorMessageCallback = TRUE
    /\ m_autoReconnect = TRUE
    /\ m_connectionTerminatedCallback = TRUE
    /\ framesLeft = SubFrames
    /\ callsLeft = SubCalls

SpecSub == SubInit /\ [][SubNext]_vars

\* Compressed data packets: the application connects and subscribes (or
\* connects again), the publisher sends cache updates, compressed data
\* packets and responses of an unknown code over the command channel, the
\* callback thread decodes and delivers.
TsscKinds == {"Tssc", "Unknown", "Cache"}

TsscNext ==
    \/ CallConnect
    \/ CallSubscribeTcp
    \/ ConnectStep(User)
    \/ Subscribe_Begin
    \/ Subscribe_Send
    \/ ReadPayloadHeader
    \/ ReadPacket(TsscKinds)
    \/ ProcessDataPacket
    \/ ProcessUnexpected
    \/ ProcessUpdateSignalIndexCache
    \/ LoadSignalIndexCache
    \/ PumpStep
    \/ ParseTSSCMeasurements
    \/ ParseTSSCMeasurements_Loop

TsscInit ==
    /\ Init
    /\ m_maxRetries = -1
    /\ m_errorMessageCallback = TRUE
    /\ m_autoReconnect = TRUE
    /\ m_connectionTerminatedCallback = TRUE
    /\ framesLeft = TsscFrames
    /\ callsLeft = TsscCalls

SpecTssc == TsscInit /\ [][TsscNext]_vars

\* The sequence numbers of compressed packets: a subscriber that expects any
\* of the sequence numbers SeqStarts connects, the publisher sends packets in
\* step with it or starts again at 0, the callback thread decodes.
SeqNext ==
    \/ CallConnect
    \/ ConnectStep(User)
    \/ ReadPayloadHeader
    \/ ReadPacket({"Seq"})
    \/ ProcessDataPacket
    \/ PumpStep
    \/ ParseTSSCMeasurements
    \/ ParseTSSCMeasurements_Loop

SeqInit ==
    /\ Construct
    /\ FrameInit
    /\ m_compressPayloadData = TRUE
    /\ m_maxRetries = -1
    /\ m_errorMessageCallback = TRUE
    /\ m_autoReconnect = TRUE
    /\ m_connectionTerminatedCallback = TRUE
    /\ framesLeft = SeqFrames
    /\ callsLeft = SeqCalls

SpecSeq == SeqInit /\ [][SeqNext]_vars

\* Updates of the signal index cache: the publisher sends cache updates that
\* are well formed, cut short, or not decompressible.
CacheKinds == {"Cache", "CacheCut", "CacheCorrupt"}

CacheNext ==
    \/ CallConnect
    \/ ConnectStep(User)
    \/ ReadPayloadHeader
    \/ ReadPacket(CacheKinds)
    \/ ProcessUpdateSignalIndexCache
    \/ ProcessUpdateSignalIndexCache_Raise
    \/ LoadSignalIndexCache
    \/ LoadSignalIndexCache_PastEnd
    \/ PumpStep

CacheInit ==
    /\ Init
    /\ m_maxRetries = -1
    /\ m_errorMessageCallback = TRUE
    /\ m_autoReconnect = TRUE
    /\ m_connectionTerminatedCallback = TRUE
    /\ framesLeft = CacheFrames
    /\ callsLeft = CacheCalls

SpecCache == CacheInit /\ [][CacheNext]_vars

\* The response dispatcher on bytes: the application connects, the publisher
\* sends bodies of every response code handled here, with and without the
\* four bytes between the codes and the payload, the callback thread delivers.
RespNext ==
    \/ CallConnect
    \/ ConnectStep(User)
    \/ ReadPayloadHeader
    \/ ReadPacket({"Raw"})
    \/ ProcessServerResponse
    \/ PumpStep

RespInit ==
    /\ Init
    /\ m_maxRetries = -1
    /\ m_errorMessageCallback = TRUE
    /\ m_autoReconnect = TRUE
    /\ m_connectionTerminatedCallback = TRUE
    /\ framesLeft = RespFrames
    /\ callsLeft = RespCalls

SpecResp == RespInit /\ [][RespNext]_vars

\* Commands on the command channel: the application connects and sends
\* commands one after the other; the writes are carried out whenever the
\* socket takes them.
SendNext ==
    \/ CallConnect
    \/ ConnectStep(User)
    \/ \E c \in SentCommands : SendServerCommand(c[1], c[2])
    \/ AsyncWrite

SendInit ==
    /\ Init
    /\ m_maxRetries = -1
    /\ m_errorMessageCallback = TRUE
    /\ m_autoReconnect = TRUE
    /\ m_connectionTerminatedCallback = TRUE
    /\ framesLeft = RespFrames
    /\ callsLeft = RespCalls

SpecSend == SendInit /\ [][SendNext]_vars

\* The operational modes: the application connects, subscribes over either
\* data channel, disconnects, and changes the compression settings at any
\* point between its calls.
ModeNext ==
    \/ CallConnect
    \/ CallSubscribe
    \/ CallDisconnect
    \/ ConnectStep(User)
    \/ Disconnect_Begin(User)
    \/ Disconnect_JoinCallback(User)
    \/ Disconnect_JoinCommand(User)
    \/ Disconnect_JoinData(User)
    \/ Disconnect_Clear(User)
    \/ Disconnect_Notify(User)
    \/ Disconnect_NotifyReturn(User)
    \/ Disconnect_Auto(User)
    \/ Disconnect_End(User)
    \/ Subscribe_Begin
    \/ Unsubscribe_Begin
    \/ Unsubscribe_Join
    \/ Unsubscribe_End
    \/ Subscribe_Send
    \/ ReadPayloadHeader
    \/ ReadPacket({"SubAck"})
    \/ ProcessSucceeded
    \/ RunDataChannelResponseThread
    \/ PumpStep
    \/ NewMeasurementsDispatcher
    \/ \E b \in BOOLEAN : SetPayloadDataCompressed(b)
    \/ \E b \in BOOLEAN : SetMetadataCompressed(b)
    \/ \E b \in BOOLEAN : SetSignalIndexCacheCompressed(b)

ModeInit ==
    /\ Init
    /\ m_maxRetries = 1
    /\ m_errorMessageCallback = TRUE
    /\ m_autoReconnect = FALSE
    /\ m_connectionTerminatedCallback = TRUE
    /\ framesLeft = ModeFrames
    /\ callsLeft = ModeCalls

SpecModes == ModeInit /\ [][ModeNext]_vars

\* The retry sequence of the connector: the application calls
\* SubscriberConnector::Connect and, from another thread, Cancel; the
\* publisher is reached or not; every limit of retries and both settings of
\* the error-message callback.
RetryNext ==
    \/ CallConnect
    \/ ConnectStep(User)
    \/ Cancel

RetryInit ==
    /\ Init
    /\ m_autoReconnect = TRUE
    /\ m_connectionTerminatedCallback = TRUE
    /\ framesLeft = MaxFrames
    /\ callsLeft = RetryCalls

SpecRetry == RetryInit /\ [][RetryNext]_vars

\* The thread inside Connect keeps running.
SpecRetryFair == SpecRetry /\ WF_vars(ConnectStep(User))

\* Automatic reconnection: the application connects through the connector
\* and makes no other call; the publisher closes connections; the threads
\* started for ConnectionTerminatedDispatcher run Disconnect(true) and the
\* auto-reconnect callback.
AutoNext ==
    \/ CallConnect
    \/ \E t \in Callers : ConnectStep(t)
    \/ \E t \in Term : DisconnectStep(t)
    \/ PeerClose
    \/ ReadPayloadHeader
    \/ ReadPacket({"SubAck"})
    \/ ProcessSucceeded
    \/ PumpStep

AutoInit ==
    /\ Init
    /\ m_maxRetries = -1
    /\ m_errorMessageCallback = TRUE
    /\ m_autoReconnect = TRUE
    /\ m_connectionTerminatedCallback = TRUE
    /\ framesLeft = AutoFrames
    /\ callsLeft = AutoCalls

\* The same run, the application changing the autoReconnect setting of the
\* connector while the subscriber is connected.
SetNext ==
    \/ CallConnect
    \/ \E t \in Callers : ConnectStep(t)
    \/ \E t \in Term : DisconnectStep(t)
    \/ PeerClose
    \/ ReadPayloadHeader
    \/ ReadPacket({"SubAck"})
    \/ ProcessSucceeded
    \/ PumpStep
    \/ \E b \in BOOLEAN : SetAutoReconnect(b)

SpecSet == AutoInit /\ [][SetNext]_vars

\* Every thread that can take a step eventually takes one.
SpecAuto ==
    /\ AutoInit
    /\ [][AutoNext]_vars
    /\ \A t \in Callers : WF_vars(ConnectStep(t))
    /\ \A t \in Term : WF_vars(DisconnectStep(t))
    /\ WF_vars(ReadPayloadHeader)
    /\ WF_vars(ReadPacket({"SubAck"}))
    /\ WF_vars(ProcessSucceeded)
    /\ WF_vars(PumpStep)

\* The command-channel reader alone, at byte level, on a stream of valid
\* frames.
FrameNext ==
    \/ ReadSome
    \/ ReadPayloadHeader_Ok
    \/ ReadPacket_Ok

FrameSpecInit ==
    /\ Construct
    /\ m_maxRetries = -1
    /\ m_errorMessageCallback = TRUE
    /\ m_autoReconnect = TRUE
    /\ m_connectionTerminatedCallback = TRUE
    /\ framesLeft = MaxFrames
    /\ callsLeft = MaxCalls
    /\ m_tsscSequenceNumber = 0
    /\ m_compressPayloadData = TRUE
    /\ FrameStart

SpecFrame == FrameSpecInit /\ [][FrameNext]_vars

\* ------------------------------------------------------------- properties
ReaderActive == commandThread.pc \in {"hdr", "body", "handle", "load"}

\* C1: whenever m_connected is true, the command-channel reader of the current
\* connection is active (a header or body read is pending, or a frame is
\* being handled).
C1_ReaderWhileConnected ==
    m_connected => (ReaderActive /\ commandThread.conn = liveConn)

\* The records of channel ch that are dequeued but not yet delivered, or still
\* queued, oldest first, as sequence numbers.
RECURSIVE SeqsOf(_, _)
SeqsOf(q, ch) ==
    IF q = << >> THEN << >>
    ELSE (IF Head(q).ch = ch THEN << Head(q).seq >> ELSE << >>) \o SeqsOf(Tail(q), ch)

Pending(ch) ==
    (IF callbackThread.pc \in {"decode", "invoke"} /\ callbackThread.item.ch = ch
     THEN << callbackThread.item.seq >> ELSE << >>) \o SeqsOf(m_callbackQueue, ch)

\* C2: per channel, the record being delivered and the records queued behind
\* it are exactly the records dispatched and not yet delivered, in dispatch
\* order: while no teardown has purged the queue, the callback thread
\* delivers the k-th record dispatched by a channel as that channel's k-th
\* callback, none skipped, none reordered.
C2_DeliveryInDispatchOrder ==
    purged = {} =>
        \A ch \in {"tcp", "udp"} :
            Pending(ch) = [j \in 1..(nDispatched[ch] - nDelivered[ch]) |->
                                nDelivered[ch] + j]

\* Three records of the command channel in flight: the second being
\* delivered, the third queued behind it.
C2_Witness ==
    /\ callbackThread.pc = "invoke"
    /\ callbackThread.item.ch = "tcp"
    /\ callbackThread.item.seq = 2
    /\ nDelivered["tcp"] = 1
    /\ SeqsOf(m_callbackQueue, "tcp") = << 3 >>

\* The threads that are inside a user callback.
InUserCallback ==
    (IF callbackThread.pc \in {"invoke", "selfjoin"} THEN {"callback thread"} ELSE {})
    \cup { t \in Callers : caller[t].pc = "d_inTermCb" }
    \cup { t \in Term : caller[t].pc \in {"ar_begin", "cc_begin", "cc_loop", "sc_check",
                                           "sc_spawn", "sc_set", "cc_fail", "cc_already",
                                           "cc_ret"} }

\* C3: at most one thread is inside a user callback of the subscriber.
C3_CallbacksSerialized == Cardinality(InUserCallback) <= 1

\* C4: a data packet of the command channel is decoded against the cache
\* contents produced by the cache updates that preceded it in the stream.
C4_ConsistentSnapshot ==
    (callbackThread.pc = "invoke" /\ callbackThread.item.fn = "data"
        /\ callbackThread.item.ch = "tcp")
    => callbackThread.seen = callbackThread.item.snap

\* No pending read can make progress and no completion handler is due.
Quiescent == stream = << >> /\ readGot < readWant

\* C5: the bodies handed to ProcessServerResponse are the frame bodies, in
\* order and once each, at every point of every chunking of the stream; when
\* the stream is used up all of them have been handed over and the reader
\* waits for the next header.
C5_BodiesInOrder ==
    /\ Len(handed) <= Len(frames)
    /\ \A j \in 1..Len(handed) : handed[j] = frames[j]
    /\ Quiescent => (handed = frames /\ readPc = "hdr" /\ readGot = 0)

\* Two different frames, the first larger than the buffer, both handed over.
C5_Witness ==
    /\ Quiescent
    /\ Len(frames) = MaxStream
    /\ Len(frames[1]) > MaxPacketSize
    /\ frames[2] # frames[1]
    /\ Len(frames[2]) > 0
    /\ handed = frames

\* C6: m_subscribed is true only if a Subscribe acknowledgement was processed
\* on the connection that is up, with no Unsubscribe acknowledgement and no
\* disconnect after it.
C6_SubscribedOnLiveConnection ==
    m_subscribed => (ackConn # 0 /\ ackConn = liveConn)

\* C7: a Disconnect() called on a subscriber at rest invokes no user callback.
C7_DisconnectAtRestSilent ==
    (caller[User].quiet /\ caller[User].pc \in {"d_begin", "d_joinCb", "d_joinCmd",
            "d_joinData", "d_clear", "d_notify", "d_inTermCb", "d_auto", "d_end"})
    => (caller[User].pc # "d_inTermCb" /\ caller[User].cbs = << >>)

C9_EofStartsTermination ==
    (commandThread.eof /\ Running /\ callbackThread.pc # "selfjoin")
    => commandThread.end = "eof"

\* C10: Disconnect never joins the thread it runs on.
C10_NoSelfJoin == callbackThread.pc # "selfjoin"

\* C11: when a read of the command channel has failed with an I/O error
\* other than EOF, reset or abort, no disconnect being in progress and the
\* application making no call, the connection is being terminated: a thread
\* runs Disconnect(true), or m_connected is already false.
C11_ErrorTerminates ==
    (Running /\ commandThread.pc = "done" /\ commandThread.end = "error"
        /\ commandThread.conn = liveConn /\ caller[User].pc = "idle")
    => (~m_connected \/ ~AllTermIdle)

\* The callback thread has taken a compressed data packet from the queue and
\* ParseTSSCMeasurements has looked at its version byte.
VersionChecked ==
    /\ callbackThread.item.fn = "data"
    /\ callbackThread.item.data.compressed
    /\ callbackThread.pc # "decode"

\* C12: a packet in error does not end anything: whatever compressed packet
\* the callback thread has taken up (of any version byte, any sequence
\* number, decodable or not), the thread is still in its loop, decoding the
\* packet or delivering it.
C12_PacketErrorsNotFatal ==
    VersionChecked => callbackThread.pc \in {"parse", "invoke"}

\* C13: a compressed packet whose version byte is not 85 is dropped with an
\* error message: the parse of such a packet ends with the error message
\* dispatched, no measurement and the expected sequence number as before.
C13_VersionMismatchSurfaced ==
    (VersionChecked /\ callbackThread.item.data.version # TsscVersion)
    => /\ callbackThread.pc = "invoke"
       /\ callbackThread.measurements = << >>
       /\ Len(callbackThread.msgs) = 1

\* The tuple the decoding loop is at, when the next TryGetMeasurement call
\* yields one.
AtTuple ==
    /\ callbackThread.pc = "parse"
    /\ callbackThread.k <= Len(callbackThread.item.data.ids)
    /\ callbackThread.item.data.raises # callbackThread.k

\* C14: in the decoding loop a tuple whose id has no key in the signal index
\* cache adds no measurement and no message (nothing is enqueued) and the
\* loop goes on with the next tuple; a tuple whose id has a key adds its
\* measurement; and what the callback is given is the list so collected.
C14_UnknownIdsOmitted ==
    /\ [][(AtTuple /\ callbackThread' # callbackThread) =>
            LET id == callbackThread.item.data.ids[callbackThread.k]
                key == GetMeasurementKey(m_signalIndexCache, id)
            IN  /\ callbackThread'.pc = "parse"
                /\ callbackThread'.k = callbackThread.k + 1
                /\ callbackThread'.msgs = callbackThread.msgs
                /\ m_callbackQueue' = m_callbackQueue
                /\ key = {} => callbackThread'.measurements = callbackThread.measurements
                /\ key # {} => \E e \in key :
                        callbackThread'.measurements =
                            Append(callbackThread.measurements, e)]_vars
    /\ [](VersionChecked /\ callbackThread.pc = "invoke"
            => /\ parsed # << >>
               /\ parsed[Len(parsed)].measurements = callbackThread.measurements
               /\ parsed[Len(parsed)].pkt = callbackThread.item.data)

\* A packet with the tuples of ids 3 and 1, id 3 unknown, delivered as the
\* one measurement of id 1 and without any message.
C14_Witness ==
    /\ VersionChecked
    /\ callbackThread.pc = "invoke"
    /\ callbackThread.item.data.ids = << 3, 1 >>
    /\ callbackThread.item.data.raises = 0
    /\ Len(callbackThread.measurements) = 1
    /\ callbackThread.measurements[1][1] = 1
    /\ callbackThread.msgs = << >>

\* C15: once an UpdateSignalIndexCache response has been handled to its
\* end, the cache holds exactly the entries of its payload, whatever the
\* cache held before: after two successive responses, the entries of the
\* second payload alone.
C15_CacheIsLastPayload ==
    commandThread.pc # "load" => m_signalIndexCache = streamCache

\* Two responses handled, the first with the entries of the signal indexes 1
\* and 2, the second with another entry for 1 only.
C15_Witness ==
    /\ commandThread.pc = "hdr"
    /\ cacheBefore = { << 1, 10 >>, << 2, 20 >> }
    /\ m_signalIndexCache = { << 1, 11 >> }

\* The application thread is inside SubscriberConnector::Connect.
InConnect == caller[User].pc \in {"cc_loop", "sc_check", "sc_spawn", "sc_set",
                                  "cc_fail", "cc_already", "cc_ret"}

\* C16: in a retry sequence limited to n = m_maxRetries >= 0 attempts, the
\* publisher never reached and Cancel not called, there are never more than
\* n attempts, every failed attempt has started one error-message callback
\* when one is registered and none otherwise, and Connect returns after
\* exactly n attempts (and n callbacks), the subscriber not connected; a
\* sequence without limit (-1) returns only once the subscriber is connected
\* or Cancel was called.
C16_ExactlyNAttempts ==
    LET c == caller[User] IN
    /\ (InConnect /\ m_maxRetries >= 0 /\ connNo = 0 /\ ~m_cancel) =>
          /\ c.attempts <= m_maxRetries
          /\ c.attempts = c.i + (IF c.pc \in {"sc_check", "cc_loop", "cc_ret"}
                                 THEN 0 ELSE 1)
          /\ c.errs = (IF m_errorMessageCallback THEN c.i ELSE 0)
          /\ c.pc = "cc_ret" => (c.attempts = m_maxRetries /\ ~m_connected)
    /\ (c.pc = "cc_ret" /\ m_maxRetries = -1) => (m_connected \/ m_cancel)

\* Connect returning after two failed attempts and two callbacks.
C16_Witness ==
    /\ caller[User].pc = "cc_ret"
    /\ m_maxRetries = 2
    /\ m_errorMessageCallback
    /\ connNo = 0
    /\ ~m_cancel
    /\ caller[User].attempts = 2
    /\ caller[User].errs = 2

\* Cancel was called while the retry sequence of the application thread is
\* between two attempts: before the loop condition is evaluated, or in the
\* wait that follows a failed attempt.
Cancelled ==
    m_cancel /\ caller[User].pc \in {"cc_loop", "cc_fail", "cc_already"}

\* C17: a retry sequence that is cancelled between two attempts makes no
\* further attempt (it goes from the wait to the loop condition and from
\* there to the return), and Connect returns.
C17_CancelStopsRetry ==
    /\ [][Cancelled => caller'[User].pc \in {"cc_loop", "cc_fail", "cc_already",
                                              "cc_ret"}]_vars
    /\ (Cancelled ~> caller[User].pc = "idle")

\* Cancel called during the wait after the first failed attempt of a
\* sequence that would have made another.
C17_Witness ==
    /\ Cancelled
    /\ caller[User].pc = "cc_fail"
    /\ m_maxRetries = 2
    /\ caller[User].attempts = 1

\* The last call of the application was Disconnect(), and it has returned
\* (Disconnect alone makes a callback on the thread that calls it).
UserDisconnectReturned ==
    /\ caller[User].pc = "idle"
    /\ caller[User].cbs = << "terminated" >>

\* C18: after the application's Disconnect() has returned, and until the
\* application makes its next call, every retry sequence that is still in
\* its loop has been cancelled (m_cancel is set, so it ends at the next
\* evaluation of the loop condition).
C18_DisconnectCancels ==
    (Running /\ UserDisconnectReturned) =>
        \A t \in Term :
            caller[t].pc \in {"cc_loop", "sc_check", "cc_fail", "cc_already"}
                => m_cancel

\* A retry sequence was started after connection c ended: a thread started
\* for ConnectionTerminatedDispatcher is inside SubscriberConnector::Connect
\* with no newer connection made yet, or a newer connection was made.
RetryAfter(c) ==
    \/ connNo > c
    \/ /\ commandThread.conn = c
       /\ \E t \in Term : caller[t].pc \in {"cc_begin", "cc_loop", "sc_check",
                                              "cc_fail", "cc_already"}

\* C19: with m_autoReconnect set, whenever the reader of a connection has
\* been handed EOF, reset or abort by the publisher, a thread eventually
\* enters SubscriberConnector::Connect for a new retry sequence, unless the
\* connector is cancelled.
C19_TerminationStartsRetry ==
    \A c \in 1..MaxConn :
        (commandThread.eof /\ commandThread.conn = c)
            ~> (m_cancel \/ RetryAfter(c))

\* Bytes the reader of the one connection has certainly taken from the
\* command channel: the frames read, and the header of the frame whose body
\* is awaited.
BytesRead ==
    (TsscFrames - framesLeft) * (PayloadHeaderSize + PacketHeaderSize + PayloadLength)
    + (IF commandThread.pc = "body" THEN PayloadHeaderSize ELSE 0)

\* The measurement counts of the packets NewMeasurementsDispatcher has taken.
RECURSIVE SumCounts(_)
SumCounts(h) ==
    IF h = << >> THEN 0 ELSE Head(h).pkt.count + SumCounts(Tail(h))

MeasurementsCounted ==
    SumCounts(parsed)
    + (IF callbackThread.pc \in {"parse", "crashed"}
       THEN callbackThread.item.data.count ELSE 0)

\* C20: a Connect of a connected subscriber, the second call the application
\* makes, has failed as already connected and has left the statistics as
\* they were: the byte count covers the bytes read on the connection,
\* the measurement count that of the packets taken up, and the threads of
\* the connection are alive.
C20_ConnectWhileConnected ==
    (caller[User].pc = "cc_already" /\ callsLeft = TsscCalls - 2) =>
        /\ m_connected
        /\ callbackThread.pc # "none"
        /\ commandThread.pc # "none"
        /\ m_totalCommandChannelBytesReceived >= BytesRead
        /\ m_totalMeasurementsReceived = MeasurementsCounted

\* The thread t invokes a callback from inside Disconnect(bool): the
\* connection-terminated callback or the auto-reconnect callback.
InvokesFromDisconnect(t) ==
    /\ caller[t].pc \in {"d_notify", "d_auto"}
    /\ Len(caller'[t].cbs) > Len(caller[t].cbs)

\* The teardown is complete: the three threads have ended and are joined,
\* the queue is empty and armed again, the flags are false.
TornDown ==
    /\ callbackThread.pc = "none"
    /\ commandThread.pc = "none"
    /\ dataThread.pc = "none"
    /\ m_callbackQueue = << >>
    /\ ~queueReleased
    /\ ~m_connected
    /\ ~m_subscribed

\* C21: every invocation of the connection-terminated or the auto-reconnect
\* callback from a Disconnect(bool) finds the callback thread and both
\* readers ended, the callback queue cleared and reset, and m_connected and
\* m_subscribed false.
C21_CallbacksAfterTeardown ==
    [][\A t \in Callers : InvokesFromDisconnect(t) => TornDown]_vars

\* NewMeasurementsDispatcher has a compressed packet of the right version in
\* hand and ParseTSSCMeasurements is about to look at its sequence number.
AtSequenceCheck ==
    /\ callbackThread.pc = "decode"
    /\ callbackThread.item.data.compressed
    /\ callbackThread.item.data.version = TsscVersion

\* The packet in hand announces a reset by the publisher.
ResetDue ==
    /\ AtSequenceCheck
    /\ callbackThread.item.data.sequenceNumber = 0
    /\ m_tsscSequenceNumber > 0

\* C22: when a packet with sequence number 0 is taken up while a sequence
\* number greater than 0 is expected, the parser is reset, the expected
\* sequence number is 0 and m_tsscResetRequested false when the decoding of
\* the packet begins, and a status message is enqueued exactly when
\* m_tsscResetRequested was false before.
C22_ResetOnSequenceZero ==
    [][(ResetDue /\ callbackThread' # callbackThread) =>
            /\ m_tsscMeasurementParser' = 0
            /\ m_tsscSequenceNumber' = 0
            /\ m_tsscResetRequested' = FALSE
            /\ callbackThread'.pc = "parse"
            /\ callbackThread'.k = 1
            /\ callbackThread'.measurements = << >>
            /\ IF m_tsscResetRequested
               THEN m_callbackQueue' = m_callbackQueue
               ELSE /\ Len(m_callbackQueue') = Len(m_callbackQueue) + 1
                    /\ m_callbackQueue'[Len(m_callbackQueue')].fn = "status"
                    /\ SubSeq(m_callbackQueue', 1, Len(m_callbackQueue)) = m_callbackQueue]_vars

\* A first packet decoded to its end, then a packet with sequence number 0:
\* the reset made, the status message dispatched, the decoding begun.
C22_Witness ==
    /\ callbackThread.pc = "parse"
    /\ callbackThread.k = 1
    /\ callbackThread.item.data.sequenceNumber = 0
    /\ Len(parsed) = 1
    /\ parsed[1].pkt.raises = 0
    /\ parsed[1].msgs = << >>
    /\ m_tsscSequenceNumber = 0
    /\ m_tsscMeasurementParser = 0
    /\ Len(callbackThread.msgs) = 1

\* The packet in hand is out of sequence: it announces no reset and its
\* sequence number is not the expected one.
MismatchDue ==
    /\ AtSequenceCheck
    /\ ~ResetDue
    /\ callbackThread.item.data.sequenceNumber # m_tsscSequenceNumber

\* C23: a packet out of sequence is not decoded: the parse ends at once, the
\* callback is given no measurement, the parser and the expected sequence
\* number (and m_tsscResetRequested) stay as they are, and an error message
\* is enqueued exactly when m_tsscResetRequested is false.
C23_OutOfSequenceDropped ==
    [][(MismatchDue /\ callbackThread' # callbackThread) =>
            /\ callbackThread'.pc = "invoke"
            /\ callbackThread'.measurements = << >>
            /\ m_tsscMeasurementParser' = m_tsscMeasurementParser
            /\ m_tsscSequenceNumber' = m_tsscSequenceNumber
            /\ m_tsscResetRequested' = m_tsscResetRequested
            /\ IF m_tsscResetRequested
               THEN m_callbackQueue' = m_callbackQueue
               ELSE /\ Len(m_callbackQueue') = Len(m_callbackQueue) + 1
                    /\ m_callbackQueue'[Len(m_callbackQueue')].fn = "error"
                    /\ SubSeq(m_callbackQueue', 1, Len(m_callbackQueue)) = m_callbackQueue]_vars

\* A first packet decoded (two tuples, sequence number 1 expected next), then
\* the packet with sequence number 2 dropped with an error message.
C23_Witness ==
    /\ callbackThread.pc = "invoke"
    /\ callbackThread.item.fn = "data"
    /\ callbackThread.item.data.compressed
    /\ callbackThread.item.data.sequenceNumber = 2
    /\ callbackThread.measurements = << >>
    /\ Len(callbackThread.msgs) = 1
    /\ Len(parsed) = 2
    /\ m_tsscSequenceNumber = 1
    /\ m_tsscMeasurementParser = 2

\* The j-th compressed packet parsed was dropped as out of sequence / was
\* reported as out of sequence.
DroppedAt(j) == parsed[j].pkt.sequenceNumber # parsed[j].expected

ReportedAt(j) ==
    \E m \in 1..Len(parsed[j].msgs) : parsed[j].msgs[m] = "TSSC is out of sequence"

\* The packets i+1..j all belong to the gap opened by packet i: none of them
\* has the sequence number 0, with which the publisher starts again.
SameGap(i, j) == \A k \in (i + 1)..j : parsed[k].pkt.sequenceNumber # 0

\* C24: m_tsscResetRequested being false, once a packet out of sequence has
\* been reported, the packets that follow it up to the next packet with
\* sequence number 0 deliver no measurement and are not reported again: one
\* error message for the gap.
C24_OneErrorPerGap ==
    \A i \in 1..Len(parsed) : \A j \in (i + 1)..Len(parsed) :
        (DroppedAt(i) /\ ReportedAt(i) /\ ~parsed[j].resetRequested /\ SameGap(i, j))
            => (parsed[j].measurements = << >> /\ ~ReportedAt(j))

\* The j-th compressed packet parsed was decoded.
DecodedAt(j) == parsed[j].pkt.sequenceNumber = parsed[j].expected

\* C25: the decoding of a packet leaves the expected sequence number at the
\* previous value plus one, 1 taking the place of 65536; the expected
\* sequence number is 0 only while no packet has been decoded yet, or inside
\* the parse of a packet with sequence number 0 (which ends with the
\* increment to 1).
C25_SequenceNeverZeroAfterDecode ==
    /\ [][(callbackThread.pc = "parse" /\ callbackThread'.pc = "invoke") =>
            /\ m_tsscSequenceNumber' =
                    (IF m_tsscSequenceNumber = 65535 THEN 1
                     ELSE m_tsscSequenceNumber + 1)
            /\ m_tsscSequenceNumber' \in 1..65535]_vars
    /\ [](m_tsscSequenceNumber = 0 =>
            \/ \A j \in 1..Len(parsed) : ~DecodedAt(j)
            \/ /\ callbackThread.pc = "parse"
               /\ callbackThread.item.data.sequenceNumber = 0)

\* The packet with sequence number 65535 decoded, 1 expected next.
C25_Witness ==
    /\ parsed # << >>
    /\ DecodedAt(Len(parsed))
    /\ parsed[Len(parsed)].expected = 65535
    /\ callbackThread.pc = "invoke"
    /\ m_tsscSequenceNumber = 1

\* The handling of an UpdateSignalIndexCache response has failed part-way:
\* the payload did not decompress, or it was cut short and the handler has
\* come to the end of what it could read of it.
CacheUpdateFailed ==
    \/ /\ commandThread.pc = "crashed"
       /\ commandThread.frame.kind \in {"CacheCorrupt", "CacheCut"}
    \/ /\ commandThread.pc = "load"
       /\ commandThread.k > Len(commandThread.frame.payload)

\* C26: when the handling of an UpdateSignalIndexCache response has failed
\* part-way, the signal index cache is the cache as it was before the
\* response was handled.
C26_FailedUpdateKeepsCache ==
    CacheUpdateFailed => m_signalIndexCache = cacheBefore

\* A subscription over the UDP data channel has been requested on the
\* connection that is up: Subscribe has opened the data channel socket and
\* sent the Subscribe command.
UdpSubscriptionRequested ==
    /\ m_connected
    /\ udpDataChannel
    /\ udpOpen
    /\ caller[User].pc = "idle"

\* C27: the operational modes last sent hold GZip, UTF8 and
\* UseCommonSerializationFormat, and when a subscription over the UDP data
\* channel has been requested they hold neither CompressPayloadData nor
\* TSSC.
C27_NoTsscOverUdp ==
    /\ sentModes # {} =>
            {"GZip", "UTF8", "UseCommonSerializationFormat"} \subseteq sentModes
    /\ UdpSubscriptionRequested =>
            sentModes \cap {"CompressPayloadData", "TSSC"} = {}

\* A step in which ProcessServerResponse handles a body with the response
\* code and returns; the body holds the whole packet header.
Handles(responseCode) ==
    /\ commandThread.pc = "handle"
    /\ commandThread.frame.kind = "Raw"
    /\ commandThread.frame.payload[1] = responseCode
    /\ Len(commandThread.frame.payload) >= PacketHeaderSize
    /\ commandThread'.pc = "hdr"

\* The bytes of the body behind the packet header.
BodyPayload ==
    SubSeq(commandThread.frame.payload, PacketHeaderSize + 1,
           Len(commandThread.frame.payload))

\* The record the step has put on the callback queue.
Enqueued == m_callbackQueue'[Len(m_callbackQueue')]

\* C28: a Succeeded response is handled by its command code: MetadataRefresh
\* forwards the payload unchanged to the metadata callback and leaves
\* subscribed alone; Subscribe sets subscribed, Unsubscribe clears it, and
\* both dispatch a status message; every other command code delivers the
\* payload as a status message, not as an error message, and leaves
\* subscribed alone.
C28_SucceededByCommandCode ==
    [][Handles(ServerResponse.Succeeded) =>
         LET commandCode == commandThread.frame.payload[2]
         IN  /\ Len(m_callbackQueue') = Len(m_callbackQueue) + 1
             /\ commandCode = ServerCommand.MetadataRefresh =>
                    /\ Enqueued.fn = "metadata"
                    /\ Enqueued.data.message = BodyPayload
                    /\ m_subscribed' = m_subscribed
             /\ commandCode = ServerCommand.Subscribe =>
                    m_subscribed' /\ Enqueued.fn = "status"
             /\ commandCode = ServerCommand.Unsubscribe =>
                    ~m_subscribed' /\ Enqueued.fn = "status"
             /\ commandCode \notin {ServerCommand.MetadataRefresh,
                                    ServerCommand.Subscribe,
                                    ServerCommand.Unsubscribe} =>
                    /\ Enqueued.fn = "status"
                    /\ Enqueued.data.message = BodyPayload
                    /\ m_subscribed' = m_subscribed]_vars

\* A step in which ProcessServerResponse has acted on a body of two bytes or
\* more whose handler passes its bytes on to the application: Failed, or
\* Succeeded for a command that comes with a message or with metadata.
PassesBytesOn ==
    /\ commandThread.pc = "handle"
    /\ commandThread.frame.kind = "Raw"
    /\ commandThread'.pc # "handle"
    /\ Len(commandThread.frame.payload) >= 2
    /\ \/ commandThread.frame.payload[1] = ServerResponse.Failed
       \/ /\ commandThread.frame.payload[1] = ServerResponse.Succeeded
          /\ commandThread.frame.payload[2] \in
                {ServerCommand.MetadataRefresh, ServerCommand.Subscribe,
                 ServerCommand.Unsubscribe, ServerCommand.Authenticate,
                 ServerCommand.RotateCipherKeys}

\* C29: for every frame body of length L >= 2 the dispatcher takes byte 0 as
\* the response code, byte 1 as the command code, and passes to the handler
\* exactly the L - 2 bytes that follow them; so the body {Succeeded,
\* Subscribe, "OK"} yields a status message that ends in "OK".
C29_PayloadFollowsCodes ==
    [][PassesBytesOn =>
         LET body == commandThread.frame.payload
         IN  /\ commandThread'.pc = "hdr"
             /\ Len(m_callbackQueue') = Len(m_callbackQueue) + 1
             /\ Enqueued.fn = IF body[1] = ServerResponse.Failed THEN "error"
                              ELSE IF body[2] = ServerCommand.MetadataRefresh
                              THEN "metadata" ELSE "status"
             /\ Enqueued.data.code = body[2]
             /\ ~Enqueued.data.past
             /\ Enqueued.data.message = SubSeq(body, 3, Len(body))]_vars

\* ProcessServerResponse is about to act on an UpdateBaseTimes response.
AtUpdateBaseTimes ==
    /\ commandThread.pc = "handle"
    /\ commandThread.frame.kind = "Raw"
    /\ commandThread.frame.payload[1] = ServerResponse.UpdateBaseTimes

\* The body of an UpdateBaseTimes response that carries the index and the
\* offsets behind the packet header.
Carrying(activeIndex, offset0, offset1) ==
    << ServerResponse.UpdateBaseTimes, 0 >> \o BigEndianBytes(20, 4)
        \o BaseTimes(activeIndex, offset0, offset1)

\* An UpdateBaseTimes response has been stored: the index and the offsets are
\* those it carried.
StoredFrom(body) ==
    \A i \in {0, 1, 2}, o0, o1 \in {0, 5, 1000, 2000} :
        body = Carrying(i, o0, o1) =>
            /\ m_timeIndex' = i
            /\ m_baseTimeOffsets' = << Int64(o0), Int64(o1) >>

\* C30: the active base-time index is 0 or 1 in every reachable state; after
\* an UpdateBaseTimes response carrying (activeIndex, offset0, offset1) the
\* stored index and offsets are those values; nothing but an UpdateBaseTimes
\* response changes them.
C30_BaseTimes ==
    /\ [](m_timeIndex \in {0, 1})
    /\ [][IF AtUpdateBaseTimes /\ commandThread'.pc = "hdr"
          THEN StoredFrom(commandThread.frame.payload)
          ELSE UNCHANGED timeVars]_vars

\* The callback thread has left its loop, or the command-channel reader has
\* returned without issuing another read, because m_disconnecting was set.
StoppedByFlag ==
    \/ callbackThread.pc = "done"
    \/ commandThread.pc = "done" /\ commandThread.end = "disconnecting"

\* C31: Unsubscribe, called directly or by Subscribe on a subscribed
\* subscriber, stops only the UDP data reader: where no Disconnect runs,
\* neither the command-channel reader nor the callback thread ends on
\* account of m_disconnecting, so the acknowledgement of the Unsubscribe is
\* still received and delivered.
C31_UnsubscribeKeepsThreads == ~StoppedByFlag

\* The thread t is inside Disconnect(true), the auto-reconnect callback it
\* has invoked has started the threads of a new connection, and
\* Disconnect(true) has not yet cleared m_disconnecting.
Reestablished(t) ==
    /\ caller[t].pc \in {"sc_set", "cc_ret", "d_end"}
    /\ Len(caller[t].cbs) > 0
    /\ caller[t].cbs[Len(caller[t].cbs)] = "autoReconnect"
    /\ commandThread.conn = liveConn

\* C32: after the auto-reconnect made from inside Disconnect(true) has
\* re-established the connection, the command-channel reader and the
\* callback thread of the new connection keep running, also on frames that
\* arrive before Disconnect(true) has cleared m_disconnecting.
C32_ReconnectedThreadsRun ==
    \A t \in Term : Reestablished(t) => ~StoppedByFlag

\* C33: every command passed to SendServerCommand reaches the publisher as
\* one frame (marker, little-endian size, command code, payload) with the
\* bytes it had when the call was made, and the frames arrive in the order
\* of the calls, also when a command is sent before the write of the one
\* before it has completed.
C33_FramesAsIssued ==
    \A j \in 1..Len(wire) : wire[j].bytes = wire[j].issued

\* No operation is in progress: the process is alive, no thread is inside an
\* API call or inside Disconnect(true), the reader is not handling a response, and the callback
\* thread is not inside a callback.
NoOperation ==
    /\ Running
    /\ \A t \in Callers : caller[t].pc = "idle"
    /\ commandThread.pc \notin {"handle", "load"}
    /\ callbackThread.pc \notin {"decode", "invoke", "selfjoin"}

\* C34: once Disconnect has returned and no other operation is in progress,
\* connected, subscribed and disconnecting are all false, whatever response
\* the reader was handling while Disconnect ran; so subscribed implies
\* connected in every quiescent state.
C34_FlagsAfterDisconnect ==
    /\ (phase = 2 /\ NoOperation) =>
            (~m_connected /\ ~m_subscribed /\ ~m_disconnecting)
    /\ NoOperation => (m_subscribed => m_connected)

\* The callback thread takes a record from the queue to deliver it.
StartsDelivery ==
    /\ callbackThread.pc = "check"
    /\ callbackThread'.pc \in {"invoke", "decode"}

\* C35: records that were enqueued and not yet delivered when Disconnect
\* begins are discarded: once Disconnect has returned, with no other
\* operation in progress, the callback queue is empty and armed again, and
\* no record that was in the queue when Disconnect cleared it is taken for
\* delivery afterwards, on a later connection or at any other time.
C35_OldRecordsDiscarded ==
    /\ []((phase = 2 /\ NoOperation) =>
              (m_callbackQueue = << >> /\ ~queueReleased))
    /\ [][StartsDelivery =>
              << callbackThread'.item.conn, callbackThread'.item.ch,
                 callbackThread'.item.seq >> \notin purged]_vars

\* Disconnect has thrown away records of the first connection that were
\* waiting in the queue, the application has connected again, and a record
\* of the new connection is being delivered.
C35_Witness ==
    /\ purged # {}
    /\ \A r \in purged : r[1] = 1
    /\ phase = 4
    /\ liveConn = 2
    /\ callbackThread.pc = "invoke"
    /\ callbackThread.item.conn = 2

\* The i-th compressed packet parsed is the publisher's first packet after a
\* Subscribe: it carries sequence number 0, the sequence test found the reset
\* request of Subscribe pending, and the packet was accepted and decoded.
FirstAfterSubscribe(i) ==
    /\ parsed[i].pkt.sequenceNumber = 0
    /\ parsed[i].requestedAtTest
    /\ DecodedAt(i)

\* C36: once the first compressed packet after a Subscribe has been accepted
\* and decoded, every later packet whose sequence number differs from the
\* expected one produces the error message "TSSC is out of sequence".
C36_GapsReportedAfterFirstPacket ==
    \A i \in 1..Len(parsed) : \A j \in (i + 1)..Len(parsed) :
        (FirstAfterSubscribe(i) /\ DroppedAt(j)) => ReportedAt(j)
\* The try block of ParseTSSCMeasurements is about to raise: the tuple the
\* parser is asked for next is the one at which the packet's data fails.
AboutToRaise ==
    /\ callbackThread.pc = "parse"
    /\ callbackThread.item.data.raises = callbackThread.k

\* The j-th compressed packet parsed raised while it was decoded.
RaisedAt(j) ==
    \E m \in 1..Len(parsed[j].msgs) : parsed[j].msgs[m] = "Decompression failure"

\* C37: the parse of a packet whose sequence number was the expected one
\* ends with the expected sequence number advanced by one step (1 in place
\* of 65536), whether decoding raised or not; when it raises, exactly one
\* error message "Decompression failure" is enqueued, the measurements
\* decoded before the failure are what the callback is given, and a next
\* packet carrying the sequence number that follows is decoded, not dropped.
C37_SequenceAdvancesOnFailure ==
    /\ [][(callbackThread.pc = "parse" /\ callbackThread'.pc = "invoke") =>
            /\ parsed' = Append(parsed, parsed'[Len(parsed')])
            /\ DecodedAt(Len(parsed))'
            /\ m_tsscSequenceNumber' =
                    (IF parsed'[Len(parsed')].expected = 65535 THEN 1
                     ELSE parsed'[Len(parsed')].expected + 1)
            /\ callbackThread'.measurements = callbackThread.measurements
            /\ parsed'[Len(parsed')].measurements = callbackThread.measurements]_vars
    /\ [][(AboutToRaise /\ callbackThread' # callbackThread) =>
            /\ callbackThread'.pc = "invoke"
            /\ Len(m_callbackQueue') = Len(m_callbackQueue) + 1
            /\ m_callbackQueue'[Len(m_callbackQueue')].fn = "error"
            /\ m_callbackQueue'[Len(m_callbackQueue')].data = "Decompression failure"
            /\ SubSeq(m_callbackQueue', 1, Len(m_callbackQueue)) = m_callbackQueue
            /\ RaisedAt(Len(parsed))']_vars
    /\ [](\A j \in 1..(Len(parsed) - 1) :
            (DecodedAt(j) /\ RaisedAt(j)
                /\ parsed[j + 1].pkt.sequenceNumber =
                        (IF parsed[j].expected = 65535 THEN 1
                         ELSE parsed[j].expected + 1))
            => DecodedAt(j + 1))

\* A compressed packet in sequence raised after its tuples were decoded: its
\* one measurement with a known id is being delivered, the error message is
\* enqueued, and the sequence number that follows is expected.
C37_Witness ==
    /\ callbackThread.pc = "invoke"
    /\ Len(parsed) = 1
    /\ DecodedAt(1)
    /\ RaisedAt(1)
    /\ parsed[1].pkt.raises = 3
    /\ Len(callbackThread.measurements) = 1
    /\ m_tsscSequenceNumber = parsed[1].expected + 1
    /\ \E q \in 1..Len(m_callbackQueue) :
            m_callbackQueue[q].data = "Decompression failure"
\* C38: when the autoReconnect setting of the connector is false as the peer
\* closes the connection, the Disconnect that follows starts no reconnect,
\* whatever the setting was at the time of an earlier Connect.
C38_NoReconnectWhenSettingFalse ==
    [][\A t \in Term :
            (caller[t].pc = "d_auto" /\ ~peerOpen /\ ~m_autoReconnect)
                => caller'[t].pc # "ar_begin"]_vars
\* The application has called SubscriberConnector::Connect on a subscriber
\* that is connected.
ConnectCalledWhileConnected == caller[User].pc = "cc_begin" /\ m_connected

\* C39: SubscriberConnector::Connect called on a subscriber that is already
\* connected returns to the application, whatever m_maxRetries is (-1
\* included) and without a call of Cancel.
C39_ConnectOnConnectedReturns ==
    ConnectCalledWhileConnected ~> caller[User].pc = "idle"
\* A step in which ProcessServerResponse has acted on a frame body.
BodyProcessed ==
    /\ commandThread.pc = "handle"
    /\ commandThread.frame.kind = "Raw"
    /\ commandThread' # commandThread

\* C40: whatever the length of the frame body handed to
\* ProcessServerResponse, lengths below the packet header size included, the
\* payload length given to the handler does not exceed the body length: the
\* handler reads nothing behind the body, so the thread does not fault and
\* a record it enqueues carries no more bytes than the body has.
C40_PayloadLengthWithinBody ==
    [][BodyProcessed =>
         /\ commandThread'.pc = "hdr"
         /\ Len(m_callbackQueue') > Len(m_callbackQueue) =>
                /\ ~Enqueued.data.past
                /\ Len(Enqueued.data.message)
                        <= Len(commandThread.frame.payload)]_vars
====
